---- MODULE Spec2Model ----
(***************************************************************************)
(* LankaSat Live frontend: the auth session store and provider, the        *)
(* satellite-map lock, the three polling panels (weather, flood gauges,    *)
(* relief directory), the relief-directory search box, the forms'          *)
(* client-side validation, the date selection and the Leaflet overlay, as  *)
(* state machines translated from the React sources.  One TLA+ step is one *)
(* handler, effect or promise continuation run to its end: React 18        *)
(* (ReactDOM.createRoot, main.jsx:13) batches the state updates of one     *)
(* such callback into a single render, so the states of the model are      *)
(* exactly the rendered states.                                            *)
(***************************************************************************)
EXTENDS Integers, Sequences, FiniteSets, TLC

VARIABLES
    \* ---- services/auth.js: browser storage
    token,          \* localStorage[TOKEN_KEY]; NoToken when absent
    storedUser,     \* localStorage[USER_KEY], parsed; NoUser when absent
    \* ---- context/AuthContext.jsx: provider state
    user,           \* useState(null)
    authLoading,    \* useState(true)
    authError,      \* useState(null)
    initPc,         \* position of initAuth: "start", "await", "done"
    meToken,        \* bearer token the pending /auth/me request carries
    authReqs,       \* in-flight /auth/login, /auth/register, /auth/guest calls
    \* ---- main.jsx routes, App.jsx, MapView.jsx
    page,           \* current route
    selectedLayer,  \* App.jsx useState('S2_TRUE_COLOR')
    selectedDate,   \* App.jsx useState(new Date()): a Date object
    tileLayer,      \* the overlay SatelliteTileLayer is rendered for, or NoLayer
    tileLayerRef,   \* SatelliteTileLayer: tileLayerRef.current
    mapLayers,      \* the Leaflet map: the overlays added and not removed
    mapListeners,   \* the Leaflet map: the handlers registered with map.on
    lastOp,         \* the operation that produced the current state
    \* ---- WeatherPanel.jsx, FloodPanel.jsx, ReliefDirectoryPage.jsx
    mounted,        \* per panel: is the component mounted (its interval set)
    data,           \* weather / {summary, levels} / directory
    loading,        \* per panel: useState(true)
    error,          \* per panel: useState(null), useState('') for the directory
    isRefreshing,   \* ReliefDirectoryPage: useState(false)
    inflight,       \* per panel and origin: fetches not yet resolved
    intervals,      \* per panel: the period of its setInterval, 0 once cleared
    lastFetch,      \* the fetch whose resolution produced the current state
    \* ---- ReliefDirectoryPage.jsx: the search box
    searchQuery,    \* useState(''), as a sequence of characters
    searchResults,  \* useState(null): the response on display, or NoResults
    isSearching,    \* useState(false)
    searchTimers,   \* pending setTimeout callbacks of the debounce effect
    searchReqs,     \* per query: /relief-directory/search calls in flight
    sinceKey,       \* milliseconds since the input last changed (up to DebounceMs)
    \* ---- LoginPage.jsx, RegisterPage.jsx, RegisterShelterPage: form state
    email,          \* useState('')
    password,       \* useState('')
    confirmPassword,\* RegisterPage: useState('')
    formError,      \* LoginPage / RegisterPage: useState('')
    shelterName,    \* RegisterShelterPage name: useState(''), as characters
    located,        \* RegisterShelterPage: lat and lon are set (map clicked)
    shelterError,   \* RegisterShelterPage error: useState('')
    shelterLoading, \* RegisterShelterPage loading: useState(false)
    shelterReqs,    \* POST /shelters calls in flight, made by the page on screen
    shelterOrphans, \* ... and those made by a page instance left since
    shelterTimers,  \* setTimeout(() => navigate('/shelters-map'), 2000) armed
    callerMounted,  \* the page that made the pending auth call is still mounted
    \* ---- services/auth.js: the listener registry
    authListeners,  \* const authListeners = new Set()
    delivered,      \* the callback invocations made by the last operation
    \* ---- the browser
    now,            \* the clock, what new Date() gives: minutes since MinDate
    tz,             \* the client's offset from UTC in minutes, east positive
    dateArg,        \* the argument of the last handleDateChange call
    fnCall,         \* the last direct call of a pure function: its arguments
    fnResult        \* ... and what it returned

\* The Leaflet map and the ref of its overlay component
mapVars == <<tileLayerRef, mapLayers, mapListeners>>

\* What the handlers of the session, the panels, the search box and the forms
\* never write
hostVars == <<authListeners, delivered, now, tz, dateArg, fnCall, fnResult>>

authVars == <<token, storedUser, user, authLoading, authError, initPc,
              meToken, authReqs, page, selectedLayer, selectedDate, hostVars,
              tileLayer, mapVars, lastOp>>

authVars_but_lastOp == <<token, storedUser, user, authLoading, authError,
                         initPc, meToken, authReqs, page, selectedLayer,
                         selectedDate, hostVars, tileLayer, mapVars>>

panelVars == <<mounted, data, loading, error, isRefreshing, inflight, intervals,
               lastFetch>>

searchVars == <<searchQuery, searchResults, isSearching, searchTimers,
                searchReqs, sinceKey>>

formVars == <<email, password, confirmPassword, formError, shelterName,
              located, shelterError, shelterLoading, shelterReqs,
              shelterOrphans, shelterTimers, callerMounted>>

vars == <<authVars, panelVars, searchVars, formVars>>

----------------------------------------------------------------------------
(* Values *)

NoToken == 0
NoUser == [id |-> 0, role |-> "none"]
GuestUser == [id |-> 1, role |-> "guest"]
RegisteredUsers == {[id |-> 2, role |-> "registered"], [id |-> 3, role |-> "registered"]}
AllUsers == {GuestUser} \cup RegisteredUsers
NoError == "null"

AuthKinds == {"login", "register", "guest"}
Routes == {"/", "/login", "/register", "/register-shelter", "/shelters-map"}
Layers == {"S2_TRUE_COLOR", "S1_VV"}

----------------------------------------------------------------------------
(* Dates: instants are minutes since 2017-01-01T00:00Z *)

\* 1000 * 60 * 60 * 24 ms, in minutes
MinutesPerDay == 1440
\* const minDate = new Date('2017-01-01'): a date-only string parses as UTC
MinDate == 0

\* What new Date() may give on page load: 2026-10-30 at 01:00, 12:00 and
\* 23:00 UTC
MiddayClock == 3589 * MinutesPerDay + 720
Clocks == {MiddayClock - 660, MiddayClock, MiddayClock + 660}
\* Client zones, as fixed offsets: UTC-05:00, UTC, UTC+05:30 (Asia/Colombo)
Colombo == 5 * 60 + 30
Zones == {-300, 0, Colombo}

\* A Date object, and a date string in some notation for a calendar day
DateObj(t) == [type |-> "Date", format |-> "instant", v |-> t]
DateStr(fmt, day) == [type |-> "string", format |-> fmt, v |-> day]
StringFormats == {"YYYY-MM-DD", "MM/DD/YYYY"}
NoDate == DateStr("none", 0)

\* date.toISOString().split('T')[0]: the calendar day of the instant in UTC
toISODate(d) == DateStr("YYYY-MM-DD", d.v \div MinutesPerDay)
\* date.toLocaleDateString(...): the calendar day of the instant in the
\* client's zone
toLocaleDate(d) == (d.v + tz) \div MinutesPerDay
\* ... and its local time of day
LocalTime(d) == (d.v + tz) % MinutesPerDay
\* The Date of a local calendar day and local time of day
LocalDate(day, tod) == DateObj(day * MinutesPerDay + tod - tz)

\* The backend is an external collaborator: /auth/guest answers a guest
\* profile, /auth/login and /auth/register a registered one; the access token
\* is modelled by the id of the profile it belongs to.
AuthResponse(kind) == IF kind = "guest" THEN {GuestUser} ELSE RegisteredUsers
TokenOf(u) == u.id
UserOf(t) == CHOOSE u \in AllUsers : u.id = t

\* The message of the SyntaxError response.json() rejects with when the body
\* is not JSON (a proxy's HTML error page)
NotJsonMessage == "Unexpected token '<' ... is not valid JSON"
\* The message of the TypeError a property read off null throws: the body
\* was the JSON value null
NullMessage(prop) == "Cannot read properties of null (reading '" \o prop \o "')"
\* What a call that reads `error.detail || fallback` off a non-2xx answer can
\* throw: Error(detail), Error(fallback), the SyntaxError of an unparsable
\* body, the TypeError of a null body, or the TypeError of a fetch that
\* itself rejects
ThrownMessages(fallback) ==
    {"detail", fallback, NotJsonMessage, NullMessage("detail"), "Failed to fetch"}

\* throw new Error(error.detail || '<default>')
DefaultMessage(kind) ==
    CASE kind = "login" -> "Login failed"
      [] kind = "register" -> "Registration failed"
      [] kind = "guest" -> "Guest login failed"
\* ... and on a 2xx answer storeAuth(data.access_token, data.user) is reached
\* only when the body parses to something other than null
FailureMessages(kind) ==
    ThrownMessages(DefaultMessage(kind)) \cup {NullMessage("access_token")}

----------------------------------------------------------------------------
(* services/auth.js *)

\* isAuthenticated(): !!getToken()
isAuthenticated == token # NoToken

\* getAuthHeaders(): the names of the headers it returns
getAuthHeaders ==
    IF token # NoToken THEN {"Authorization", "Content-Type"} ELSE {"Content-Type"}

----------------------------------------------------------------------------
(* context/AuthContext.jsx: the derived part of the context value *)

\* isAuthenticated: !!user
IsAuthenticated(u) == u # NoUser
\* isGuest: user?.role === 'guest'
IsGuest(u) == u # NoUser /\ u.role = "guest"

\* The three session states of the view-lock coordinator
SessionState(u) ==
    IF u = NoUser THEN "ANONYMOUS"
    ELSE IF u.role = "guest" THEN "GUEST"
    ELSE "REGISTERED"

----------------------------------------------------------------------------
(* App.jsx, MapView.jsx, RegisterShelterPage *)

isSatelliteMapLocked_NoGuest(u) == ~IsAuthenticated(u)
\* const isSatelliteMapLocked = !isAuthenticated || isGuest;
isSatelliteMapLocked(u) == ~IsAuthenticated(u) \/ IsGuest(u)

\* RegisterShelterPage: if (!isAuthenticated || isGuest) navigate('/') / return null
ShelterBlocked(u) == ~IsAuthenticated(u) \/ IsGuest(u)

\* RegisterShelterPage's redirect effect, run after every render of the page
ShelterEffect(pg, ld, u) ==
    IF pg = "/register-shelter" /\ ~ld /\ ShelterBlocked(u) THEN "/" ELSE pg

\* What the shelter route shows
ShelterView ==
    IF page # "/register-shelter" THEN "closed"
    ELSE IF authLoading THEN "spinner"
    ELSE IF ShelterBlocked(user) THEN "blank"
    ELSE "form"

\* A getTileUrl that interpolates whatever it is given
getTileUrl_NoCut(layer, date) ==
    [layer |-> layer, date |-> date, z |-> "{z}", x |-> "{x}", y |-> "{y}"]

\* getTileUrl(layer, date): a Date is cut to its ISO day, anything else is
\* interpolated as it is; the URL ends in &z={z}&x={x}&y={y}
getTileUrl(layer, date) ==
    [layer |-> layer,
     date |-> IF date.type = "Date" THEN toISODate(date) ELSE date,
     z |-> "{z}", x |-> "{x}", y |-> "{y}"]

\* No satellite overlay on the map
NoLayer == [layer |-> "none", date |-> NoDate, z |-> "", x |-> "", y |-> ""]

\* MapView: dateStr = selectedDate instanceof Date ? ISO day : selectedDate
MapViewDateStr(date) == IF date.type = "Date" THEN toISODate(date) ELSE date

\* App returns <LoadingOverlay/> while authLoading; otherwise it renders
\* <MapView/> whatever the lock says, and SatelliteTileLayer's effect puts
\* L.tileLayer(getTileUrl(layer, date)) on the map.  Unmounting removes it.
SatelliteTileLayer(pg, ld, layer, date) ==
    IF pg = "/" /\ ~ld THEN getTileUrl(layer, MapViewDateStr(date)) ELSE NoLayer

\* A layer object L.tileLayer(url, ...) made, with the id Leaflet stamps on it
LeafletLayer(url, stamp) == [url |-> url, stamp |-> stamp]
\* tileLayerRef.current before the first effect: useRef(null)
NoRef == LeafletLayer(NoLayer, 0)
\* A stamp no layer on the map carries
FreshStamp(layers) ==
    CHOOSE n \in 0..Cardinality(layers) : \A l \in layers : l.stamp # n

\* A cleanup that leaves the overlay on the map
TileEffectCleanup_KeepsLayer(layers, ref) == layers

\* SatelliteTileLayer, the effect's cleanup:
\* if (tileLayerRef.current) map.removeLayer(tileLayerRef.current)
TileEffectCleanup(layers, ref) == IF ref # NoRef THEN layers \ {ref} ELSE layers

\* SatelliteTileLayer, the effect: remove the layer of the ref if there is
\* one, make the layer of getTileUrl(layer, date), keep it in the ref, add it
TileEffectRun(layers, ref, url) ==
    LET kept == IF ref # NoRef THEN layers \ {ref} ELSE layers
        made == LeafletLayer(url, FreshStamp(kept))
    IN [layers |-> kept \cup {made}, ref |-> made]

\* LoadingIndicator: map.on('loading'), map.on('load'); CoordinatesDisplay:
\* map.on('move'); each effect's cleanup calls map.off for what it set
ComponentListeners ==
    {[owner |-> "LoadingIndicator", event |-> "loading"],
     [owner |-> "LoadingIndicator", event |-> "load"],
     [owner |-> "CoordinatesDisplay", event |-> "move"]}

\* The effects of MapView's children in the commit that takes the overlay
\* wanted from tileLayer to tileLayer': mount, unmount, or a change of
\* [layer, date], which runs the cleanup and then the effect again
MapCommit ==
    IF tileLayer' = tileLayer
    THEN UNCHANGED mapVars
    ELSE IF tileLayer = NoLayer
    THEN LET run == TileEffectRun(mapLayers, NoRef, tileLayer')
         IN /\ mapLayers' = run.layers
            /\ tileLayerRef' = run.ref
            /\ mapListeners' = mapListeners \cup ComponentListeners
    ELSE IF tileLayer' = NoLayer
    THEN /\ mapLayers' = TileEffectCleanup(mapLayers, tileLayerRef)
         /\ tileLayerRef' = NoRef
         /\ mapListeners' = mapListeners \ ComponentListeners
    ELSE LET run == TileEffectRun(TileEffectCleanup(mapLayers, tileLayerRef),
                                 tileLayerRef, tileLayer')
         IN /\ mapLayers' = run.layers
            /\ tileLayerRef' = run.ref
            /\ mapListeners' = mapListeners

\* The map after the first commit of a page with the overlay tileLayer
MapSettled ==
    IF tileLayer = NoLayer
    THEN /\ tileLayerRef = NoRef
         /\ mapLayers = {}
         /\ mapListeners = {}
    ELSE /\ tileLayerRef = TileEffectRun({}, NoRef, tileLayer).ref
         /\ mapLayers = TileEffectRun({}, NoRef, tileLayer).layers
         /\ mapListeners = ComponentListeners

\* App.jsx:19: useState('S2_TRUE_COLOR')
DefaultLayer == "S2_TRUE_COLOR"

\* The render that follows a state change, for the route asked for: the
\* route effect of the shelter page, then the page's own state, then the map
\* effect.  A change of route unmounts the page left and mounts the page
\* entered, so App (the element of '/') starts again from
\* useState('S2_TRUE_COLOR') and useState(new Date()); on the same route the
\* layer and date given are kept.
Commit(pg, ld, u, layer, date) ==
    /\ page' = ShelterEffect(pg, ld, u)
    /\ selectedLayer' = IF pg # page \/ page' # page THEN DefaultLayer ELSE layer
    /\ selectedDate' = IF pg # page \/ page' # page THEN DateObj(now) ELSE date
    /\ tileLayer' = SatelliteTileLayer(page', ld, selectedLayer', selectedDate')
    /\ MapCommit

InFlight == authReqs["login"] + authReqs["register"] + authReqs["guest"]

----------------------------------------------------------------------------
(* Auth actions *)

\* initAuth up to its await: no token -> finally setLoading(false)
InitAuthStart ==
    /\ initPc = "start"
    /\ IF isAuthenticated
       THEN /\ initPc' = "await"
            /\ meToken' = token
            /\ authLoading' = authLoading
       ELSE /\ initPc' = "done"
            /\ meToken' = NoToken
            /\ authLoading' = FALSE
    /\ lastOp' = "initAuth"
    /\ UNCHANGED <<panelVars, searchVars, formVars>>
    /\ Commit(page, authLoading', user, selectedLayer, selectedDate)
    /\ UNCHANGED <<token, storedUser, user, authError, authReqs, hostVars>>

\* An initAuth whose catch does not look for the stored user
InitAuthResolve_NoFallback(outcome) ==
    /\ initPc = "await"
    /\ initPc' = "done"
    /\ meToken' = NoToken
    /\ CASE outcome = "ok" ->
              /\ user' = UserOf(meToken)
              /\ UNCHANGED <<token, storedUser>>
         [] outcome = "401" ->
              /\ token' = NoToken
              /\ storedUser' = NoUser
              /\ user' = user
         [] outcome = "error" ->
              /\ user' = user
              /\ UNCHANGED <<token, storedUser>>
    /\ authLoading' = FALSE
    /\ lastOp' = "initAuth"
    /\ UNCHANGED <<panelVars, searchVars, formVars>>
    /\ Commit(page, FALSE, user', selectedLayer, selectedDate)
    /\ UNCHANGED <<authError, authReqs, hostVars>>

\* getCurrentUser() resolves: 200 -> setUser(userData); 401 -> clearAuth() and
\* throw; other failure -> throw.  catch: setUser(getUser()) when one is stored.
InitAuthResolve(outcome) ==
    /\ initPc = "await"
    /\ initPc' = "done"
    /\ meToken' = NoToken
    /\ CASE outcome = "ok" ->
              /\ user' = UserOf(meToken)
              /\ UNCHANGED <<token, storedUser>>
         [] outcome = "401" ->
              /\ token' = NoToken
              /\ storedUser' = NoUser
              /\ user' = user
         [] outcome = "error" ->
              /\ user' = IF storedUser # NoUser THEN storedUser ELSE user
              /\ UNCHANGED <<token, storedUser>>
    /\ authLoading' = FALSE
    /\ lastOp' = "initAuth"
    /\ UNCHANGED <<panelVars, searchVars, formVars>>
    /\ Commit(page, FALSE, user', selectedLayer, selectedDate)
    /\ UNCHANGED <<authError, authReqs, hostVars>>

\* AuthContext register / login / loginAsGuest up to the await:
\* setLoading(true); setError(null); the POST leaves
ProviderCall(kind) ==
    /\ authReqs' = [authReqs EXCEPT ![kind] = @ + 1]
    /\ authLoading' = TRUE
    /\ authError' = NoError

\* A storeAuth that writes the token and not the user
ProviderOk_TokenOnly(kind, u) ==
    /\ authReqs[kind] > 0
    /\ authReqs' = [authReqs EXCEPT ![kind] = @ - 1]
    /\ token' = TokenOf(u)
    /\ storedUser' = storedUser
    /\ user' = u
    /\ authLoading' = FALSE

\* The call resolves 2xx: storeAuth(access_token, user); setUser(result.user);
\* finally setLoading(false)
ProviderOk(kind, u) ==
    /\ authReqs[kind] > 0
    /\ authReqs' = [authReqs EXCEPT ![kind] = @ - 1]
    /\ token' = TokenOf(u)
    /\ storedUser' = u
    /\ user' = u
    /\ authLoading' = FALSE

ProviderFail_ClearsUser(kind, msg) ==
    /\ authReqs[kind] > 0
    /\ authReqs' = [authReqs EXCEPT ![kind] = @ - 1]
    /\ authError' = msg
    /\ user' = NoUser
    /\ authLoading' = FALSE
    /\ UNCHANGED <<token, storedUser>>

\* A provider call without its finally
ProviderFail_NoFinally(kind, msg) ==
    /\ authReqs[kind] > 0
    /\ authReqs' = [authReqs EXCEPT ![kind] = @ - 1]
    /\ authError' = msg
    /\ authLoading' = authLoading
    /\ UNCHANGED <<token, storedUser, user>>

\* The call fails: catch setError(err.message), rethrow; finally setLoading(false)
ProviderFail(kind, msg) ==
    /\ authReqs[kind] > 0
    /\ authReqs' = [authReqs EXCEPT ![kind] = @ - 1]
    /\ authError' = msg
    /\ authLoading' = FALSE
    /\ UNCHANGED <<token, storedUser, user>>

\* logout() = clearAuth(), setUser(null), setError(null).  Header.handleLogout
\* then navigate('/'); ShelterMapPage's Logout button stays on its page.
\* Both buttons are rendered for a signed-in user only, the Header's inside
\* App, which shows the loading overlay instead while the provider loads.
Logout(home) ==
    /\ initPc # "start"
    /\ IsAuthenticated(user)
    /\ IF home THEN page = "/" /\ ~authLoading ELSE page = "/shelters-map"
    /\ token' = NoToken
    /\ storedUser' = NoUser
    /\ user' = NoUser
    /\ authError' = NoError
    /\ lastOp' = "logout"
    /\ UNCHANGED <<panelVars, searchVars, formVars>>
    /\ Commit(page, authLoading, NoUser, selectedLayer, selectedDate)
    /\ UNCHANGED <<authLoading, initPc, meToken, authReqs, hostVars>>

\* Another window of the same origin signs out: services/auth.js logout()
\* runs there, and clearAuth() empties the localStorage both windows share.
\* This window's provider keeps its state: it listens to no storage event.
OtherWindowLogout ==
    /\ token # NoToken
    /\ token' = NoToken
    /\ storedUser' = NoUser
    /\ lastOp' = "storage"
    /\ UNCHANGED <<user, authLoading, authError, initPc, meToken, authReqs,
                   page, selectedLayer, selectedDate, hostVars, tileLayer,
                   mapVars, panelVars, searchVars, formVars>>

\* Functions another module may hand to onAuthStateChange
Callbacks == {"cb1", "cb2"}

\* notifyAuthChange(user): authListeners.forEach(callback => callback(user)).
\* The module defines it and calls it nowhere: registerUser, loginUser and
\* guestLogin end with storeAuth(...) and return data, logout with clearAuth().
notifyAuthChange(u) == {[callback |-> cb, user |-> u] : cb \in authListeners}

\* onAuthStateChange(callback): authListeners.add(callback)
onAuthStateChange(cb) ==
    /\ cb \notin authListeners
    /\ authListeners' = authListeners \cup {cb}
    /\ lastOp' = "subscribe"
    /\ UNCHANGED <<token, storedUser, user, authLoading, authError, initPc,
                   meToken, authReqs, page, selectedLayer, selectedDate,
                   tileLayer, mapVars, delivered, now, tz, dateArg, fnCall,
                   fnResult>>
    /\ UNCHANGED <<panelVars, searchVars, formVars>>

\* The function onAuthStateChange returned: authListeners.delete(callback)
Unsubscribe(cb) ==
    /\ cb \in authListeners
    /\ authListeners' = authListeners \ {cb}
    /\ lastOp' = "unsubscribe"
    /\ UNCHANGED <<token, storedUser, user, authLoading, authError, initPc,
                   meToken, authReqs, page, selectedLayer, selectedDate,
                   tileLayer, mapVars, delivered, now, tz, dateArg, fnCall,
                   fnResult>>
    /\ UNCHANGED <<panelVars, searchVars, formVars>>

\* App.handleLayerChange: setSelectedLayer(layerId), whatever the session.
\* The lock is a pointer-events-none class on the sidebar's wrapper and an
\* overlay on the map (App.jsx:98, 119): the layer buttons stay reachable
\* with the keyboard, and MapView under the overlay follows the selection.
handleLayerChange(layerId) ==
    /\ page = "/"
    /\ ~authLoading
    /\ layerId # selectedLayer
    /\ lastOp' = "setLayer"
    /\ UNCHANGED <<panelVars, searchVars, formVars>>
    /\ Commit(page, authLoading, user, layerId, selectedDate)
    /\ UNCHANGED <<token, storedUser, user, authLoading, authError, initPc,
                   meToken, authReqs, hostVars>>

----------------------------------------------------------------------------
(* services/layers.js and the lookup of App.jsx; getTileUrl called directly *)

\* The keys of LAYER_CONFIG
RegistryIds == {"S1_VV", "S1_VH", "S1_FLOOD", "S2_TRUE_COLOR",
                "S2_FALSE_COLOR", "S2_NDVI", "S2_NDWI"}
\* LAYER_CONFIG is an object literal: it also answers, through its
\* prototype, the names every object inherits from Object.prototype: its
\* functions, and the accessor __proto__, which gives Object.prototype itself
InheritedFunctions ==
    {"constructor", "toString", "toLocaleString", "valueOf", "hasOwnProperty",
     "isPrototypeOf", "propertyIsEnumerable", "__defineGetter__",
     "__defineSetter__", "__lookupGetter__", "__lookupSetter__"}
InheritedKeys == InheritedFunctions \cup {"__proto__"}
\* Ids that are neither
UnknownIds == {"S3_OLCI", ""}
LayerIds == RegistryIds \cup InheritedKeys \cup UnknownIds

\* A value as the components read it: .name, and .legend with its length;
\* name "" and hasLegend FALSE stand for undefined
Descriptor(nm, hasLegend, n) ==
    [defined |-> TRUE, name |-> nm, hasLegend |-> hasLegend, legend |-> n]
Undefined == [defined |-> FALSE, name |-> "", hasLegend |-> FALSE, legend |-> 0]
\* {} : no name, no legend
EmptyObject == Descriptor("", FALSE, 0)

\* LAYER_CONFIG[id]: a registry entry, an inherited function (its .name is
\* its own name, 'Object' for the constructor; no .legend), Object.prototype
\* (no .name, no .legend), or undefined
LAYER_CONFIG(id) ==
    CASE id = "S1_VV" -> Descriptor("Sentinel-1 VV", TRUE, 3)
      [] id = "S1_VH" -> Descriptor("Sentinel-1 VH", TRUE, 3)
      [] id = "S1_FLOOD" -> Descriptor("Flood Detection", TRUE, 3)
      [] id = "S2_TRUE_COLOR" -> Descriptor("True Color", TRUE, 7)
      [] id = "S2_FALSE_COLOR" -> Descriptor("False Color", TRUE, 3)
      [] id = "S2_NDVI" -> Descriptor("NDVI", TRUE, 5)
      [] id = "S2_NDWI" -> Descriptor("NDWI", TRUE, 4)
      [] id = "constructor" -> Descriptor("Object", FALSE, 0)
      [] id \in InheritedFunctions \ {"constructor"} -> Descriptor(id, FALSE, 0)
      [] id = "__proto__" -> Descriptor("", FALSE, 0)
      [] OTHER -> Undefined

\* The lookup without its || {}
currentLayerConfig_NoFallback(id) == LAYER_CONFIG(id)

\* const currentLayerConfig = LAYER_CONFIG[selectedLayer] || {};
currentLayerConfig(id) ==
    IF LAYER_CONFIG(id).defined THEN LAYER_CONFIG(id) ELSE EmptyObject

\* Legend: if (!layerConfig || !layerConfig.legend) return null; else the
\* name and one row per legend entry
Legend(layerConfig) ==
    IF ~layerConfig.defined \/ ~layerConfig.hasLegend
    THEN [shown |-> FALSE, title |-> "", rows |-> 0]
    ELSE [shown |-> TRUE, title |-> layerConfig.name, rows |-> layerConfig.legend]

\* The caption of the map: {currentLayerConfig.name}; reading a property of
\* undefined throws
Caption(layerConfig) ==
    IF layerConfig.defined THEN layerConfig.name ELSE "TypeError"

\* Dates a caller may hand to getTileUrl: Date objects and strings
DateArgs ==
    {DateObj(t) : t \in {MinDate - 60, MinDate, MinDate + MinutesPerDay - 1,
                         MiddayClock - 720, MiddayClock, MiddayClock + 719}}
    \cup {DateStr(f, day) : f \in StringFormats, day \in {0, 1, 3589}}

NoCall == [fn |-> "none", layer |-> "", date |-> NoDate]
NoResult == [url |-> NoLayer, config |-> Undefined]

\* What a direct call of a function leaves alone: everything
callFrame == <<token, storedUser, user, authLoading, authError, initPc,
               meToken, authReqs, page, selectedLayer, selectedDate,
               tileLayer, mapVars, authListeners, delivered, now, tz, dateArg,
               panelVars, searchVars, formVars>>

\* getTileUrl(layer, date) called with some layer id and some date
CallGetTileUrl(layer, date) ==
    /\ fnCall' = [fn |-> "getTileUrl", layer |-> layer, date |-> date]
    /\ fnResult' = [url |-> getTileUrl(layer, date), config |-> Undefined]
    /\ lastOp' = "getTileUrl"
    /\ UNCHANGED callFrame

\* The lookup of App.jsx evaluated for some layer id
CallLayerConfig(id) ==
    /\ fnCall' = [fn |-> "currentLayerConfig", layer |-> id, date |-> NoDate]
    /\ fnResult' = [url |-> NoLayer, config |-> currentLayerConfig(id)]
    /\ lastOp' = "currentLayerConfig"
    /\ UNCHANGED callFrame

----------------------------------------------------------------------------
(* DateSlider.jsx and App.handleDateChange *)

\* const maxDate = new Date()
MaxDate == now
\* Math.floor((maxDate - minDate) / (1000 * 60 * 60 * 24))
totalDays == (MaxDate - MinDate) \div MinutesPerDay

\* The range input: min 0, max 100, step 0.1; values are kept in tenths
SliderValues == {0, 1, 500, 999, 1000}

\* sliderToDate(value): days = floor(value / 100 * totalDays); a copy of
\* minDate moved by setDate(getDate() + days), that is along the local
\* calendar, keeping the local time of day
sliderToDate(v) ==
    LET days == (v * totalDays) \div 1000
        min == DateObj(MinDate)
    IN LocalDate(toLocaleDate(min) + days, LocalTime(min))

\* quickDates: Today, 1 Week, 1 Month, 3 Months, as days before now
QuickDays == {0, 7, 30, 90}
quickDate(back) == DateObj(now - back * MinutesPerDay)

\* <DatePicker selected minDate maxDate/>: the days it lets the user choose
\* are the local calendar days from minDate's to maxDate's
PickerFirstDay == toLocaleDate(DateObj(MinDate))
PickerLastDay == toLocaleDate(DateObj(MaxDate))
PickerDays == {PickerFirstDay, PickerFirstDay + 1, PickerLastDay - 1, PickerLastDay}
\* ... and it answers the chosen day with the time of day of `selected`
pickedDate(day) == LocalDate(day, LocalTime(selectedDate))

\* The sidebar is rendered, and takes input, whenever App shows the map
\* page: while the map is locked its wrapper only gets the class
\* 'pointer-events-none opacity-50' (App.jsx:98), which stops the mouse and
\* leaves the slider, the buttons and the picker to the keyboard
SidebarLive == page = "/" /\ ~authLoading

\* App.handleDateChange(date): setSelectedDate(date), and the render that
\* follows rebuilds the overlay
handleDateChange(date) ==
    /\ SidebarLive
    /\ dateArg' = date
    /\ lastOp' = "setDate"
    /\ Commit(page, authLoading, user, selectedLayer, date)
    /\ UNCHANGED <<token, storedUser, user, authLoading, authError, initPc,
                   meToken, authReqs, authListeners, delivered,
                   now, tz, fnCall, fnResult>>
    /\ UNCHANGED <<panelVars, searchVars, formVars>>

\* handleSliderChange: setSliderValue(value); onDateChange(sliderToDate(value))
handleSliderChange(v) == handleDateChange(sliderToDate(v))

\* A quick-select button: onClick={() => onDateChange(date)}
QuickSelect(back) == handleDateChange(quickDate(back))

\* The date picker: onChange={onDateChange}
PickDate(day) == handleDateChange(pickedDate(day))

----------------------------------------------------------------------------
(* The polling panels: WeatherPanel, FloodPanel, ReliefDirectoryPage *)

Panels == {"weather", "flood", "relief"}
\* Who issued a fetch: the mount effect, the setInterval tick, a button
Origins == {"mount", "tick", "manual"}

\* Bound: fetches of the panels in flight at once
MaxPanelInFlight == 2

\* Payloads a successful response may carry (snapshots of the server's data)
Payloads == {1, 2}
NoData == 0

\* null for weather and flood (useState(null)), '' for the directory
NoErr(p) == IF p = "relief" THEN "" ELSE "null"
\* {error && ...}: null and '' are both falsy
Truthy(e) == e \notin {"null", ""}

\* How a panel's fetch ends in the loader's catch: a non-2xx answer, fetch
\* itself rejecting, a 2xx body that is not JSON, a 2xx body that is the
\* JSON value null.  The flood panel awaits fetchFloodSummary() and
\* fetchWaterLevels() under Promise.all and catches the rejection of the one
\* that failed; a null answer of either is read only after both resolved.
FetchFailures == {"http", "network", "parse", "null"}
FailuresOf(p) ==
    IF p = "flood" THEN FetchFailures \cup {"http levels", "null levels"}
    ELSE FetchFailures
\* err.message: `Failed to fetch ...: ${statusText}` for a non-2xx answer,
\* the TypeError's text when fetch itself rejects, the SyntaxError's when
\* response.json() does, the TypeError's of response.data, summaryRes.data,
\* data.last_updated or levelsRes.readings read off null
FetchMessage(p, f) ==
    CASE f = "network" -> "Failed to fetch"
      [] f = "parse" -> NotJsonMessage
      [] f = "null" ->
           IF p = "relief" THEN NullMessage("last_updated") ELSE NullMessage("data")
      [] f = "null levels" -> NullMessage("readings")
      [] f = "http levels" -> "Failed to fetch water levels: statusText"
      [] f = "http" ->
           CASE p = "weather" -> "Failed to fetch weather: statusText"
             [] p = "flood" -> "Failed to fetch flood summary: statusText"
             [] p = "relief" -> "Failed to fetch relief directory: statusText"

\* What the try block has stored by the time it throws.  Weather and the
\* flood summary throw before any setter.  The directory runs
\* setDirectory(data) before it reads data.last_updated; the flood panel runs
\* setSummary(summaryRes.data) before it reads levelsRes.readings.  For the
\* flood panel `data` is the summary, which is what its views test.
DataAfterFailure(p, f, v) ==
    IF p = "relief" /\ f = "null" THEN NoData
    ELSE IF p = "flood" /\ f = "null levels" THEN v
    ELSE data[p]

\* fetchDirectory(refresh): the tick and both buttons pass true, the mount
\* effect passes nothing; the other panels have no such flag
Force(p, origin) == p = "relief" /\ origin # "mount"

PanelInFlight(p) == inflight[p]["mount"] + inflight[p]["tick"] + inflight[p]["manual"]
TotalInFlight == PanelInFlight("weather") + PanelInFlight("flood") + PanelInFlight("relief")
NoFetches == [o \in Origins |-> 0]
\* The response handled just before this one, when it was this panel's too
NoBefore == [origin |-> "none", result |-> "none", payload |-> NoData]
NoFetch == [panel |-> "none", origin |-> "none", result |-> "none",
            payload |-> NoData, message |-> "", hadError |-> FALSE,
            before |-> NoBefore]
Before(p) ==
    IF lastFetch.panel = p
    THEN [origin |-> lastFetch.origin, result |-> lastFetch.result,
          payload |-> lastFetch.payload]
    ELSE NoBefore

\* setInterval(loadWeather, 600000), setInterval(loadFloodData, 300000) and
\* setInterval(() => fetchDirectory(true), 5 * 60 * 1000)
WeatherRefreshMs == 600000
FloodRefreshMs == 300000
ReliefRefreshMs == 5 * 60 * 1000
RefreshMs(p) ==
    CASE p = "weather" -> WeatherRefreshMs
      [] p = "flood" -> FloodRefreshMs
      [] p = "relief" -> ReliefRefreshMs
\* No interval registered: never set, or clearInterval has run
NoInterval == 0

\* The route a panel lives on: the two panels hang off App, the directory
\* is a page of its own (main.jsx:18-23)
RouteOf(p) == IF p = "relief" THEN "/relief-directory" ELSE "/"

\* What a panel renders
\*   weather/flood: if (loading && !data) spinner; if (error && !data) the
\*   message with Retry; else the panel body, whose footer has Refresh and
\*   no error text.
\*   directory: if (loading) spinner; else the page, with the error banner
\*   and Retry when error is set.
PanelView(p) ==
    IF ~mounted[p] THEN "closed"
    ELSE IF p = "relief"
         THEN IF loading[p] THEN "spinner" ELSE "page"
         ELSE IF loading[p] /\ data[p] = NoData THEN "spinner"
              ELSE IF Truthy(error[p]) /\ data[p] = NoData THEN "error"
              ELSE "body"

\* Is the panel's data on screen
DataShown(p) == PanelView(p) \in {"body", "page"} /\ data[p] # NoData

\* Is the panel's error text, with its Retry button, on screen
ErrorShown(p) ==
    \/ PanelView(p) = "error"
    \/ PanelView(p) = "page" /\ Truthy(error[p])

\* loadWeather / loadFloodData / fetchDirectory up to the await, with `clr`
\* telling whether the error is reset before the fetch
StartFetch(p, origin, clr) ==
    /\ TotalInFlight < MaxPanelInFlight
    /\ inflight' = [inflight EXCEPT ![p][origin] = @ + 1]
    /\ IF Force(p, origin)
       THEN /\ isRefreshing' = TRUE
            /\ loading' = loading
       ELSE /\ loading' = [loading EXCEPT ![p] = TRUE]
            /\ isRefreshing' = isRefreshing
    /\ error' = IF clr THEN [error EXCEPT ![p] = NoErr(p)] ELSE error

PanelLoad_ClearsError(p, origin) == StartFetch(p, origin, TRUE)
\* try { setLoading(true) | setIsRefreshing(true); await fetch...
PanelLoad(p, origin) == StartFetch(p, origin, FALSE)

\* The component mounts: useState defaults, then the effect's first fetch
\* and its setInterval
MountPanel(p) ==
    /\ TotalInFlight < MaxPanelInFlight
    /\ mounted' = [mounted EXCEPT ![p] = TRUE]
    /\ intervals' = [intervals EXCEPT ![p] = RefreshMs(p)]
    /\ data' = [data EXCEPT ![p] = NoData]
    /\ loading' = [loading EXCEPT ![p] = TRUE]
    /\ error' = [error EXCEPT ![p] = NoErr(p)]
    /\ isRefreshing' = IF p = "relief" THEN FALSE ELSE isRefreshing
    /\ inflight' = [inflight EXCEPT ![p] = [NoFetches EXCEPT !["mount"] = 1]]

\* An unmount whose effect returns no cleanup: the interval stays registered
UnmountPanel_NoClearInterval(p) ==
    /\ mounted' = [mounted EXCEPT ![p] = FALSE]
    /\ intervals' = intervals
    /\ data' = [data EXCEPT ![p] = NoData]
    /\ loading' = [loading EXCEPT ![p] = TRUE]
    /\ error' = [error EXCEPT ![p] = NoErr(p)]
    /\ isRefreshing' = IF p = "relief" THEN FALSE ELSE isRefreshing
    /\ inflight' = [inflight EXCEPT ![p] = NoFetches]

\* The component unmounts: clearInterval; its state is gone and a response
\* that comes later sets state on nothing
UnmountPanel(p) ==
    /\ mounted' = [mounted EXCEPT ![p] = FALSE]
    /\ intervals' = [intervals EXCEPT ![p] = NoInterval]
    /\ data' = [data EXCEPT ![p] = NoData]
    /\ loading' = [loading EXCEPT ![p] = TRUE]
    /\ error' = [error EXCEPT ![p] = NoErr(p)]
    /\ isRefreshing' = IF p = "relief" THEN FALSE ELSE isRefreshing
    /\ inflight' = [inflight EXCEPT ![p] = NoFetches]

\* Header's weather / flood buttons, and the panels' close buttons; while the
\* provider is loading App renders its loading overlay and no Header
TogglePanel(p) ==
    /\ p # "relief"
    /\ page = "/" /\ ~authLoading
    /\ IF mounted[p] THEN UnmountPanel(p) ELSE MountPanel(p)
    /\ lastOp' = "toggle " \o p
    /\ UNCHANGED <<searchVars, formVars>>
    /\ lastFetch' = NoFetch
    /\ UNCHANGED authVars_but_lastOp

\* setInterval(loadWeather, 600000) / (loadFloodData, 300000) /
\* (() => fetchDirectory(true), 5 * 60 * 1000) fires
Tick(p) ==
    /\ intervals[p] # NoInterval
    /\ PanelLoad(p, "tick")
    /\ lastOp' = p \o "_tick"
    /\ UNCHANGED <<searchVars, formVars>>
    /\ lastFetch' = NoFetch
    /\ UNCHANGED <<mounted, intervals, data, authVars_but_lastOp>>

\* Refresh (disabled={loading}, disabled={isRefreshing} on the directory) or
\* Retry (shown with the error, never disabled) is clicked
ManualRefresh(p) ==
    /\ mounted[p]
    /\ PanelView(p) # "spinner"
    /\ IF p = "relief"
       THEN ~isRefreshing \/ Truthy(error[p])
       ELSE ~loading[p]
    /\ PanelLoad(p, "manual")
    /\ lastOp' = p \o "_refresh"
    /\ UNCHANGED <<searchVars, formVars>>
    /\ lastFetch' = NoFetch
    /\ UNCHANGED <<mounted, intervals, data, authVars_but_lastOp>>

\* A loading flag that the panels share instead of owning one each
Finally_SharedLoading(p) ==
    /\ loading' = [q \in Panels |-> FALSE]
    /\ isRefreshing' = IF p = "relief" THEN FALSE ELSE isRefreshing

\* finally { setLoading(false) } and, on the directory, setIsRefreshing(false)
Finally(p) ==
    /\ loading' = [loading EXCEPT ![p] = FALSE]
    /\ isRefreshing' = IF p = "relief" THEN FALSE ELSE isRefreshing

\* A loader that drops a response when the one handled just before it was a
\* success of the same panel
FetchOk_FirstWins(p, origin, v) ==
    /\ inflight[p][origin] > 0
    /\ inflight' = [inflight EXCEPT ![p][origin] = @ - 1]
    /\ data' = IF Before(p).result = "ok" THEN data ELSE [data EXCEPT ![p] = v]
    /\ error' = [error EXCEPT ![p] = NoErr(p)]
    /\ Finally(p)
    /\ lastOp' = p \o "_ok"
    /\ UNCHANGED <<searchVars, formVars>>
    /\ lastFetch' = [panel |-> p, origin |-> origin, result |-> "ok",
                     payload |-> v, message |-> "", hadError |-> Truthy(error[p]),
                     before |-> Before(p)]
    /\ UNCHANGED <<mounted, intervals, authVars_but_lastOp>>

\* A fetch resolves 2xx: setWeather(response.data) | setSummary, setLevels |
\* setDirectory(data); setError(null | ''); finally
FetchOk(p, origin, v) ==
    /\ inflight[p][origin] > 0
    /\ inflight' = [inflight EXCEPT ![p][origin] = @ - 1]
    /\ data' = [data EXCEPT ![p] = v]
    /\ error' = [error EXCEPT ![p] = NoErr(p)]
    /\ Finally(p)
    /\ lastOp' = p \o "_ok"
    /\ UNCHANGED <<searchVars, formVars>>
    /\ lastFetch' = [panel |-> p, origin |-> origin, result |-> "ok",
                     payload |-> v, message |-> "", hadError |-> Truthy(error[p]),
                     before |-> Before(p)]
    /\ UNCHANGED <<mounted, intervals, authVars_but_lastOp>>

\* What the catch block stores: err.message, or the directory's fixed text
CaughtMessage(p, msg) ==
    IF p = "relief"
    THEN "Failed to load relief directory. Please try again later."
    ELSE msg

\* A fetch ends in the catch: setError(...); finally.  Whatever the try block
\* stored before it threw stays stored.
FetchFail(p, origin, f) ==
    /\ inflight[p][origin] > 0
    /\ inflight' = [inflight EXCEPT ![p][origin] = @ - 1]
    /\ \E v \in Payloads : data' = [data EXCEPT ![p] = DataAfterFailure(p, f, v)]
    /\ error' = [error EXCEPT ![p] = CaughtMessage(p, FetchMessage(p, f))]
    /\ Finally(p)
    /\ lastOp' = p \o "_fail"
    /\ UNCHANGED <<searchVars, formVars>>
    /\ lastFetch' = [panel |-> p, origin |-> origin, result |-> "fail",
                     payload |-> NoData, message |-> FetchMessage(p, f),
                     hadError |-> Truthy(error[p]), before |-> Before(p)]
    /\ UNCHANGED <<mounted, intervals, authVars_but_lastOp>>

\* The routes with panels
PanelRoutes == {"/", "/relief-directory"}

----------------------------------------------------------------------------
(* ReliefDirectoryPage: the debounced search *)

\* Bounds: the longest query typed, and search calls in flight at once
MaxQueryLen == 2
MaxSearchInFlight == 2

\* setTimeout(..., 300)
DebounceMs == 300
\* searchQuery.length < 2, searchQuery.length >= 2
MinQueryLen == 2

Chars == {"a", " "}
RECURSIVE SeqsOfLen(_)
SeqsOfLen(n) ==
    IF n = 0 THEN {<<>>}
    ELSE {Append(q, c) : q \in SeqsOfLen(n - 1), c \in Chars}
Queries == UNION {SeqsOfLen(n) : n \in 0..MaxQueryLen}

NoResults == [query |-> <<"null">>]

\* String.prototype.trim(): whitespace off both ends
RECURSIVE TrimLeft(_)
TrimLeft(q) == IF q # <<>> /\ Head(q) = " " THEN TrimLeft(Tail(q)) ELSE q
RECURSIVE TrimRight(_)
TrimRight(q) ==
    IF q # <<>> /\ q[Len(q)] = " " THEN TrimRight(SubSeq(q, 1, Len(q) - 1)) ELSE q
Trim(q) == TrimRight(TrimLeft(q))

SearchInFlight == {q \in Queries : searchReqs[q] > 0}
RECURSIVE SumReqs(_)
SumReqs(Q) ==
    IF Q = {} THEN 0
    ELSE LET q == CHOOSE x \in Q : TRUE IN searchReqs[q] + SumReqs(Q \ {q})
SearchCount == SumReqs(Queries)

\* The length test alone, without the trim
HandleSearchSkips_NoTrim(q) == Len(q) < MinQueryLen

\* if (!searchQuery.trim() || searchQuery.length < 2): handleSearch returns
\* without a request
HandleSearchSkips(q) == Trim(q) = <<>> \/ Len(q) < MinQueryLen

\* Does the debounce callback with this query in its closure end in a request
TimerRequests(q) == Len(q) >= MinQueryLen /\ ~HandleSearchSkips(q)

Later(ms, d) == IF ms + d >= DebounceMs THEN DebounceMs ELSE ms + d

\* The debounce effect re-runs on a new searchQuery: its cleanup
\* clearTimeout(timer), then setTimeout for the new query
TimersAfterChange(q) == {[query |-> q, elapsed |-> 0]}

\* The search box and the "Clear search" button are part of the page's main
\* return: they exist while ReliefDirectoryPage is the element on screen and
\* its first load has settled (if (loading) return the spinner)
SearchBoxShown ==
    page = "/relief-directory" /\ mounted["relief"] /\ ~loading["relief"]

\* onChange={(e) => setSearchQuery(e.target.value)}: typing, deleting, pasting
SetSearchQuery(q) ==
    /\ SearchBoxShown
    /\ UNCHANGED <<authVars_but_lastOp, panelVars, formVars>>
    /\ q # searchQuery
    /\ searchQuery' = q
    /\ searchTimers' = TimersAfterChange(q)
    /\ sinceKey' = 0
    /\ lastOp' = "input"
    /\ UNCHANGED <<searchResults, isSearching, searchReqs>>

\* "Clear search", shown with the results: setSearchQuery(''), setSearchResults(null)
ClearSearch ==
    /\ SearchBoxShown
    /\ UNCHANGED <<authVars_but_lastOp, panelVars, formVars>>
    /\ searchResults # NoResults
    /\ searchQuery' = <<>>
    /\ searchResults' = NoResults
    /\ IF searchQuery # <<>>
       THEN searchTimers' = TimersAfterChange(<<>>) /\ sinceKey' = 0
       ELSE UNCHANGED <<searchTimers, sinceKey>>
    /\ lastOp' = "clear"
    /\ UNCHANGED <<isSearching, searchReqs>>

\* Time passes
Advance(d) ==
    /\ UNCHANGED <<authVars_but_lastOp, panelVars, formVars>>
    /\ searchTimers # {}
    /\ searchTimers' = {[t EXCEPT !.elapsed = Later(@, d)] : t \in searchTimers}
    /\ sinceKey' = Later(sinceKey, d)
    /\ lastOp' = "wait"
    /\ UNCHANGED <<searchQuery, searchResults, isSearching, searchReqs>>

\* The timeout fires: if (searchQuery.length >= 2) handleSearch() else
\* setSearchResults(null); handleSearch either returns early, clearing the
\* results, or sets isSearching and awaits searchReliefOrganizations(query)
TimerFires(t) ==
    /\ UNCHANGED <<authVars_but_lastOp, panelVars, formVars>>
    /\ t \in searchTimers
    /\ t.elapsed >= DebounceMs
    /\ searchTimers' = searchTimers \ {t}
    /\ IF TimerRequests(t.query)
       THEN /\ SearchCount < MaxSearchInFlight
            /\ searchReqs' = [searchReqs EXCEPT ![t.query] = @ + 1]
            /\ isSearching' = TRUE
            /\ searchResults' = searchResults
            /\ lastOp' = "timer_request"
       ELSE /\ searchResults' = NoResults
            /\ lastOp' = "timer_clear"
            /\ UNCHANGED <<searchReqs, isSearching>>
    /\ UNCHANGED <<searchQuery, sinceKey>>

\* The search call resolves 2xx: setSearchResults(results); finally
\* setIsSearching(false)
SearchOk(q) ==
    /\ UNCHANGED <<authVars_but_lastOp, panelVars, formVars>>
    /\ searchReqs[q] > 0
    /\ searchReqs' = [searchReqs EXCEPT ![q] = @ - 1]
    /\ searchResults' = [query |-> q]
    /\ isSearching' = FALSE
    /\ lastOp' = "search_ok"
    /\ UNCHANGED <<searchQuery, searchTimers, sinceKey>>

\* The search call fails: catch console.error only; finally setIsSearching(false)
SearchFail(q) ==
    /\ UNCHANGED <<authVars_but_lastOp, panelVars, formVars>>
    /\ searchReqs[q] > 0
    /\ searchReqs' = [searchReqs EXCEPT ![q] = @ - 1]
    /\ isSearching' = FALSE
    /\ lastOp' = "search_fail"
    /\ UNCHANGED <<searchQuery, searchResults, searchTimers, sinceKey>>

----------------------------------------------------------------------------
(* LoginPage, RegisterPage, RegisterShelterPage: client-side validation *)

\* password.length < 6, and minLength={6} on the password input
MinPasswordLen == 6

\* Bound: POST /shelters calls in flight plus redirect timers armed, at once
MaxShelterPending == 2

\* What the user types; the non-empty addresses are well-formed ones
Emails == {"", "a@b.com"}
Passwords == {"", "short", "secret1", "secret2"}
ShelterNames == {<<>>, <<" ">>, <<"a">>}
FormRoutes == {"/login", "/register", "/register-shelter"}

\* RegisterPage's form has no noValidate, so the browser checks the inputs'
\* attributes before it fires submit: email required, password required
\* minLength={6}, the confirmation required.  When one fails it reports that
\* field and the handler is not called.
RegisterFormValid(e, p, c) ==
    e # "" /\ p # "" /\ Len(p) >= MinPasswordLen /\ c # ""

\* RegisterShelterPage's form: the name input is required
ShelterFormValid(name) == name # <<>>

\* RegisterPage.handleSubmit's checks, in order; "" when all pass
RegisterValidation(e, p, c) ==
    IF e = "" \/ p = "" THEN "Email and password are required"
    ELSE IF Len(p) < MinPasswordLen THEN "Password must be at least 6 characters"
    ELSE IF p # c THEN "Passwords do not match"
    ELSE ""

\* LoginPage.handleSubmit's check
LoginValidation(e, p) ==
    IF e = "" \/ p = "" THEN "Please fill in all fields" ELSE ""

\* RegisterShelterPage.handleSubmit's checks
ShelterValidation(name, loc) ==
    IF Trim(name) = <<>> THEN "Shelter name is required"
    ELSE IF ~loc THEN "Please select a location on the map"
    ELSE ""

\* createShelter: throw new Error(error.detail || 'Failed to create shelter')
ShelterFailures == ThrownMessages("Failed to create shelter")

\* The state of the page on screen; the redirect timers are not part of it
pageVars == <<email, password, confirmPassword, formError, shelterName,
              located, shelterError, shelterLoading, shelterReqs,
              shelterOrphans, callerMounted>>

\* A page mounts with empty fields.  The page left takes its state with it;
\* a POST /shelters it has in flight goes on without a page to report to.
FreshForms ==
    /\ email' = ""
    /\ password' = ""
    /\ confirmPassword' = ""
    /\ formError' = ""
    /\ shelterName' = <<>>
    /\ located' = FALSE
    /\ shelterError' = ""
    /\ shelterLoading' = FALSE
    /\ shelterReqs' = 0
    /\ shelterOrphans' = shelterOrphans + shelterReqs
    /\ callerMounted' = FALSE

authFrame == <<token, storedUser, user, authLoading, authError, initPc,
               meToken, authReqs, page, selectedLayer, selectedDate, hostVars, tileLayer,
               mapVars>>

\* The panels after the element of route pg has mounted: the panels of the
\* page left are gone with it (their effects' cleanups run clearInterval),
\* ReliefDirectoryPage starts its first load and its interval, App starts
\* with both panels closed
PanelsOf(pg) ==
    /\ mounted' = [p \in Panels |-> p = "relief" /\ pg = "/relief-directory"]
    /\ intervals' = [p \in Panels |->
                       IF p = "relief" /\ pg = "/relief-directory"
                       THEN RefreshMs(p) ELSE NoInterval]
    /\ data' = [p \in Panels |-> NoData]
    /\ loading' = [p \in Panels |-> TRUE]
    /\ error' = [p \in Panels |-> NoErr(p)]
    /\ isRefreshing' = FALSE
    /\ inflight' = [p \in Panels |->
                      IF p = "relief" /\ pg = "/relief-directory"
                      THEN [NoFetches EXCEPT !["mount"] = 1] ELSE NoFetches]
    /\ lastFetch' = NoFetch

\* The search box after the element of route pg has mounted: the debounce
\* effect of the page left has run its clearTimeout; ReliefDirectoryPage
\* mounts with an empty query and the effect's first timer armed
SearchOf(pg) ==
    /\ searchQuery' = <<>>
    /\ searchResults' = NoResults
    /\ isSearching' = FALSE
    /\ searchTimers' = IF pg = "/relief-directory"
                       THEN TimersAfterChange(<<>>) ELSE {}
    /\ searchReqs' = [q \in Queries |-> 0]
    /\ sinceKey' = IF pg = "/relief-directory" THEN 0 ELSE DebounceMs

\* The element on screen after a step that asked for route pg: a new one,
\* with the state of a mount, when the route changed on the way, the same
\* one otherwise.  Comes after Commit, which settles page'.
Remount(pg) ==
    IF pg # page \/ page' # page
    THEN FreshForms /\ PanelsOf(page') /\ SearchOf(page')
    ELSE UNCHANGED <<pageVars, panelVars, searchVars>>

\* A <Link>, navigate() or the address bar opens a route: when it is not the
\* route on screen, the page left unmounts and the page entered mounts
RouteChange(pg) ==
    /\ Commit(pg, authLoading, user, selectedLayer, selectedDate)
    /\ Remount(pg)
    /\ UNCHANGED <<token, storedUser, user, authLoading, authError, initPc,
                   meToken, authReqs, hostVars>>

NavigateTo(pg) ==
    /\ initPc # "start"
    /\ pg # page
    /\ lastOp' = "open " \o pg
    /\ shelterTimers' = shelterTimers
    /\ RouteChange(pg)

\* The inputs' onChange; every input is disabled={loading}
SetEmail(v) ==
    /\ page \in {"/login", "/register"} /\ ~authLoading
    /\ v # email
    /\ email' = v
    /\ lastOp' = "input"
    /\ UNCHANGED <<password, confirmPassword, formError, shelterName, located,
                   shelterError, shelterLoading, shelterReqs, shelterOrphans,
                   shelterTimers, callerMounted>>
    /\ UNCHANGED <<authFrame, panelVars, searchVars>>

SetPassword(v) ==
    /\ page \in {"/login", "/register"} /\ ~authLoading
    /\ v # password
    /\ password' = v
    /\ lastOp' = "input"
    /\ UNCHANGED <<email, confirmPassword, formError, shelterName, located,
                   shelterError, shelterLoading, shelterReqs, shelterOrphans,
                   shelterTimers, callerMounted>>
    /\ UNCHANGED <<authFrame, panelVars, searchVars>>

SetConfirmPassword(v) ==
    /\ page = "/register" /\ ~authLoading
    /\ v # confirmPassword
    /\ confirmPassword' = v
    /\ lastOp' = "input"
    /\ UNCHANGED <<email, password, formError, shelterName, located,
                   shelterError, shelterLoading, shelterReqs, shelterOrphans,
                   shelterTimers, callerMounted>>
    /\ UNCHANGED <<authFrame, panelVars, searchVars>>

SetShelterName(v) ==
    /\ ShelterView = "form" /\ ~shelterLoading
    /\ v # shelterName
    /\ shelterName' = v
    /\ lastOp' = "input"
    /\ UNCHANGED <<email, password, confirmPassword, formError, located,
                   shelterError, shelterLoading, shelterReqs, shelterOrphans,
                   shelterTimers, callerMounted>>
    /\ UNCHANGED <<authFrame, panelVars, searchVars>>

\* LocationPicker click: handleLocationSelect sets lat and lon
handleLocationSelect ==
    /\ ShelterView = "form"
    /\ ~located
    /\ located' = TRUE
    /\ lastOp' = "input"
    /\ UNCHANGED <<email, password, confirmPassword, formError, shelterName,
                   shelterError, shelterLoading, shelterReqs, shelterOrphans,
                   shelterTimers, callerMounted>>
    /\ UNCHANGED <<authFrame, panelVars, searchVars>>

\* Create Account is clicked (or Enter pressed in a field).  The browser's
\* constraint validation comes first and may stop the submission; otherwise
\* RegisterPage.handleSubmit runs: setFormError(''); clearError(); the
\* checks; then await register(email, password, displayName || null)
SubmitRegister ==
    /\ page = "/register" /\ ~authLoading
    /\ IF ~RegisterFormValid(email, password, confirmPassword)
       THEN UNCHANGED <<formError, authError, authReqs, authLoading, callerMounted>>
       ELSE LET msg == RegisterValidation(email, password, confirmPassword) IN
         IF msg # ""
         THEN /\ formError' = msg
              /\ authError' = NoError
              /\ UNCHANGED <<authReqs, authLoading, callerMounted>>
         ELSE /\ formError' = ""
              /\ ProviderCall("register")
              /\ callerMounted' = TRUE
    /\ lastOp' = "submit /register"
    /\ UNCHANGED <<email, password, confirmPassword, shelterName, located,
                   shelterError, shelterLoading, shelterReqs, shelterOrphans,
                   shelterTimers>>
    /\ Commit(page, authLoading', user, selectedLayer, selectedDate)
    /\ UNCHANGED <<token, storedUser, user, initPc, meToken, hostVars,
                   panelVars, searchVars>>

\* LoginPage.handleSubmit: setFormError(''); clearError(); the check; then
\* await login(email, password).  The inputs carry no required attribute.
SubmitLogin ==
    /\ page = "/login" /\ ~authLoading
    /\ LET msg == LoginValidation(email, password) IN
         IF msg # ""
         THEN /\ formError' = msg
              /\ authError' = NoError
              /\ UNCHANGED <<authReqs, authLoading, callerMounted>>
         ELSE /\ formError' = ""
              /\ ProviderCall("login")
              /\ callerMounted' = TRUE
    /\ lastOp' = "submit /login"
    /\ UNCHANGED <<email, password, confirmPassword, shelterName, located,
                   shelterError, shelterLoading, shelterReqs, shelterOrphans,
                   shelterTimers>>
    /\ Commit(page, authLoading', user, selectedLayer, selectedDate)
    /\ UNCHANGED <<token, storedUser, user, initPc, meToken, hostVars,
                   panelVars, searchVars>>

ShelterPending == shelterReqs + shelterOrphans + shelterTimers

\* Register Shelter is clicked; the button is
\* disabled={loading || !lat || !lon}, and a disabled submit button also
\* stops the Enter key.  The browser stops an empty name (required);
\* otherwise RegisterShelterPage.handleSubmit runs: setError(''); the
\* checks; then setLoading(true) and await createShelter(shelterData)
SubmitShelter ==
    /\ ShelterView = "form" /\ ~shelterLoading /\ located
    /\ IF ~ShelterFormValid(shelterName)
       THEN UNCHANGED <<shelterError, shelterLoading, shelterReqs>>
       ELSE LET msg == ShelterValidation(shelterName, located) IN
         IF msg # ""
         THEN /\ shelterError' = msg
              /\ UNCHANGED <<shelterLoading, shelterReqs>>
         ELSE /\ ShelterPending < MaxShelterPending
              /\ shelterError' = ""
              /\ shelterLoading' = TRUE
              /\ shelterReqs' = shelterReqs + 1
    /\ lastOp' = "submit /register-shelter"
    /\ UNCHANGED <<email, password, confirmPassword, formError, shelterName,
                   located, shelterOrphans, shelterTimers, callerMounted>>
    /\ UNCHANGED <<authFrame, panelVars, searchVars>>

\* LoginPage.handleGuestLogin: setFormError(''); clearError(); then
\* await loginAsGuest().  The button is disabled={loading}.
SubmitGuest ==
    /\ page = "/login" /\ ~authLoading
    /\ formError' = ""
    /\ ProviderCall("guest")
    /\ callerMounted' = TRUE
    /\ lastOp' = "guest /login"
    /\ UNCHANGED <<email, password, confirmPassword, shelterName, located,
                   shelterError, shelterLoading, shelterReqs, shelterOrphans,
                   shelterTimers>>
    /\ Commit(page, authLoading', user, selectedLayer, selectedDate)
    /\ UNCHANGED <<token, storedUser, user, initPc, meToken, hostVars,
                   panelVars, searchVars>>

\* The page's call resolves 2xx: the provider stores the session, then the
\* handler goes on to navigate('/'), whether or not its page is still there
FormAuthOk(kind, u) ==
    /\ ProviderOk(kind, u)
    /\ shelterTimers' = shelterTimers
    /\ lastOp' = kind \o "_ok"
    /\ Commit("/", FALSE, u, selectedLayer, selectedDate)
    /\ Remount("/")
    /\ UNCHANGED <<authError, initPc, meToken, hostVars>>

\* The page's call fails: the provider's catch, then the page's
\* catch (err) { setFormError(err.message) }, which sets state only while
\* the page is still mounted
FormAuthFail(kind, msg) ==
    /\ ProviderFail(kind, msg)
    /\ formError' = IF callerMounted THEN msg ELSE formError
    /\ callerMounted' = FALSE
    /\ lastOp' = kind \o "_fail"
    /\ Commit(page, FALSE, user, selectedLayer, selectedDate)
    /\ UNCHANGED <<email, password, confirmPassword, shelterName, located,
                   shelterError, shelterLoading, shelterReqs, shelterOrphans,
                   shelterTimers>>
    /\ UNCHANGED <<initPc, meToken, hostVars, panelVars, searchVars>>

\* createShelter resolves 2xx for the page on screen: setSuccess(true), the
\* fields are reset, setTimeout(() => navigate('/shelters-map'), 2000) is
\* armed; finally setLoading(false)
ShelterOk ==
    /\ shelterReqs > 0
    /\ shelterReqs' = shelterReqs - 1
    /\ shelterLoading' = FALSE
    /\ shelterName' = <<>>
    /\ located' = FALSE
    /\ shelterError' = shelterError
    /\ shelterTimers' = shelterTimers + 1
    /\ lastOp' = "shelter_ok"
    /\ UNCHANGED <<email, password, confirmPassword, formError, shelterOrphans,
                   callerMounted>>
    /\ UNCHANGED <<authFrame, panelVars, searchVars>>

\* createShelter throws: catch setError(err.message); finally setLoading(false)
ShelterFail(msg) ==
    /\ shelterReqs > 0
    /\ shelterReqs' = shelterReqs - 1
    /\ shelterLoading' = FALSE
    /\ shelterError' = msg
    /\ lastOp' = "shelter_fail"
    /\ UNCHANGED <<email, password, confirmPassword, formError, shelterName,
                   located, shelterOrphans, shelterTimers, callerMounted>>
    /\ UNCHANGED <<authFrame, panelVars, searchVars>>

\* createShelter settles for a page that was left meanwhile: the setters do
\* nothing on the unmounted page, the timer of a success is armed all the same
ShelterLate(ok) ==
    /\ shelterOrphans > 0
    /\ shelterOrphans' = shelterOrphans - 1
    /\ shelterTimers' = IF ok THEN shelterTimers + 1 ELSE shelterTimers
    /\ lastOp' = "shelter_late"
    /\ UNCHANGED <<email, password, confirmPassword, formError, shelterName,
                   located, shelterError, shelterLoading, shelterReqs,
                   callerMounted>>
    /\ UNCHANGED <<authFrame, panelVars, searchVars>>

\* The timer armed by a success fires 2000 ms later: navigate('/shelters-map'),
\* from whatever page is on screen by then
ShelterRedirect ==
    /\ shelterTimers > 0
    /\ shelterTimers' = shelterTimers - 1
    /\ lastOp' = "shelter_redirect"
    /\ RouteChange("/shelters-map")

----------------------------------------------------------------------------
(* Specifications *)

\* No listener registered, the clock at midday, the client in Colombo
HostIdle ==
    /\ authListeners = {}
    /\ delivered = {}
    /\ now = MiddayClock
    /\ tz = Colombo
    /\ dateArg = NoDate
    /\ fnCall = NoCall
    /\ fnResult = NoResult

\* The stored session a page load may find: none, or one written by storeAuth
StoredSessions == {NoUser} \cup AllUsers

PanelsClosed ==
    /\ mounted = [p \in Panels |-> FALSE]
    /\ data = [p \in Panels |-> NoData]
    /\ loading = [p \in Panels |-> TRUE]
    /\ error = [p \in Panels |-> NoErr(p)]
    /\ isRefreshing = FALSE
    /\ inflight = [p \in Panels |-> NoFetches]
    /\ intervals = [p \in Panels |-> NoInterval]
    /\ lastFetch = NoFetch

\* No search box on screen
SearchIdle ==
    /\ searchQuery = <<>>
    /\ searchResults = NoResults
    /\ isSearching = FALSE
    /\ searchTimers = {}
    /\ searchReqs = [q \in Queries |-> 0]
    /\ sinceKey = DebounceMs

\* No form on screen
FormsIdle ==
    /\ email = ""
    /\ password = ""
    /\ confirmPassword = ""
    /\ formError = ""
    /\ shelterName = <<>>
    /\ located = FALSE
    /\ shelterError = ""
    /\ shelterLoading = FALSE
    /\ shelterReqs = 0
    /\ shelterOrphans = 0
    /\ shelterTimers = 0
    /\ callerMounted = FALSE

\* The provider has just been constructed (first render, before initAuth)
Init ==
    /\ storedUser \in StoredSessions
    /\ token = TokenOf(storedUser)
    /\ user = NoUser
    /\ authLoading = TRUE
    /\ authError = NoError
    /\ initPc = "start"
    /\ meToken = NoToken
    /\ authReqs = [k \in AuthKinds |-> 0]
    /\ page \in Routes
    /\ selectedLayer = DefaultLayer
    /\ HostIdle
    /\ selectedDate = DateObj(now)
    /\ tileLayer = NoLayer
    /\ MapSettled
    /\ lastOp = "mount"
    /\ PanelsClosed
    /\ SearchIdle
    /\ FormsIdle

\* What a visitor who signs in types
SessionEmails == {"", "a@b.com"}
SessionPasswords == {"", "secret1"}

Next ==
    \/ InitAuthStart
    \/ \E o \in {"ok", "401", "error"} : InitAuthResolve(o)
    \/ \E v \in SessionEmails : SetEmail(v)
    \/ \E v \in SessionPasswords : SetPassword(v)
    \/ \E v \in SessionPasswords : SetConfirmPassword(v)
    \/ SubmitLogin
    \/ SubmitRegister
    \/ SubmitGuest
    \/ \E k \in AuthKinds : \E u \in AuthResponse(k) : FormAuthOk(k, u)
    \/ \E k \in AuthKinds : \E m \in FailureMessages(k) : FormAuthFail(k, m)
    \/ \E home \in BOOLEAN : Logout(home)
    \/ OtherWindowLogout
    \/ \E pg \in Routes : NavigateTo(pg)
    \/ \E l \in Layers : handleLayerChange(l)

\* The session store, the provider, the routes and the map
Spec == Init /\ [][Next]_vars

\* The dashboard with auth settled (no stored session, initAuth done)
\* A settled anonymous visitor on the map page
StoreInit ==
    /\ storedUser = NoUser
    /\ token = NoToken
    /\ user = NoUser
    /\ authLoading = FALSE
    /\ authError = NoError
    /\ initPc = "done"
    /\ meToken = NoToken
    /\ authReqs = [k \in AuthKinds |-> 0]
    /\ page = "/"
    /\ selectedLayer = DefaultLayer
    /\ HostIdle
    /\ selectedDate = DateObj(now)
    /\ tileLayer = SatelliteTileLayer("/", FALSE, selectedLayer, selectedDate)
    /\ MapSettled
    /\ lastOp = "mount"
    /\ PanelsClosed
    /\ SearchIdle
    /\ FormsIdle

StoreNext ==
    \/ \E cb \in Callbacks : onAuthStateChange(cb)
    \/ \E cb \in Callbacks : Unsubscribe(cb)
    \/ \E pg \in Routes : NavigateTo(pg)
    \/ \E v \in SessionEmails : SetEmail(v)
    \/ \E v \in SessionPasswords : SetPassword(v)
    \/ SubmitLogin
    \/ SubmitGuest
    \/ \E k \in {"login", "guest"} : \E u \in AuthResponse(k) : FormAuthOk(k, u)
    \/ \E k \in {"login", "guest"} : \E m \in FailureMessages(k) : FormAuthFail(k, m)
    \/ \E home \in BOOLEAN : Logout(home)

\* The session store of services/auth.js with its listener registry
StoreSpec == StoreInit /\ [][StoreNext]_vars

\* A registered user on the unlocked map page, in some zone at some hour
DateInit ==
    /\ storedUser \in RegisteredUsers
    /\ token = TokenOf(storedUser)
    /\ user = storedUser
    /\ authLoading = FALSE
    /\ authError = NoError
    /\ initPc = "done"
    /\ meToken = NoToken
    /\ authReqs = [k \in AuthKinds |-> 0]
    /\ page = "/"
    /\ selectedLayer = DefaultLayer
    /\ authListeners = {}
    /\ delivered = {}
    /\ now \in Clocks
    /\ tz \in Zones
    /\ dateArg = NoDate
    /\ fnCall = NoCall
    /\ fnResult = NoResult
    /\ selectedDate = DateObj(now)
    /\ tileLayer = SatelliteTileLayer("/", FALSE, selectedLayer, selectedDate)
    /\ MapSettled
    /\ lastOp = "mount"
    /\ PanelsClosed
    /\ SearchIdle
    /\ FormsIdle

\* The map page and a page without the map
MapRoutes == {"/", "/login"}

DateNext ==
    \/ \E pg \in MapRoutes : NavigateTo(pg)
    \/ \E v \in SliderValues : handleSliderChange(v)
    \/ \E back \in QuickDays : QuickSelect(back)
    \/ \E day \in PickerDays : PickDate(day)
    \/ \E l \in Layers : handleLayerChange(l)

\* The date and layer selection of the sidebar
DateSpec == DateInit /\ [][DateNext]_vars

\* The pure functions, called with arguments of every kind
FunctionInit == StoreInit

FunctionNext ==
    \/ \E l \in LayerIds : \E d \in DateArgs : CallGetTileUrl(l, d)
    \/ \E l \in LayerIds : CallLayerConfig(l)

FunctionSpec == FunctionInit /\ [][FunctionNext]_vars

PanelInit ==
    /\ storedUser = NoUser
    /\ token = NoToken
    /\ user = NoUser
    /\ authLoading = FALSE
    /\ authError = NoError
    /\ initPc = "done"
    /\ meToken = NoToken
    /\ authReqs = [k \in AuthKinds |-> 0]
    /\ page = "/"
    /\ selectedLayer = DefaultLayer
    /\ HostIdle
    /\ selectedDate = DateObj(now)
    /\ tileLayer = SatelliteTileLayer("/", FALSE, selectedLayer, selectedDate)
    /\ MapSettled
    /\ lastOp = "mount"
    /\ PanelsClosed
    /\ SearchIdle
    /\ FormsIdle

PanelNext ==
    \/ \E p \in Panels : TogglePanel(p)
    \/ \E pg \in PanelRoutes : NavigateTo(pg)
    \/ \E p \in Panels : Tick(p)
    \/ \E p \in Panels : ManualRefresh(p)
    \/ \E p \in Panels : \E o \in Origins : \E v \in Payloads : FetchOk(p, o, v)
    \/ \E p \in Panels : \E o \in Origins : \E f \in FailuresOf(p) : FetchFail(p, o, f)


\* The three polling panels
PanelSpec == PanelInit /\ [][PanelNext]_vars

\* The directory page once its first load has settled, with or without an
\* error banner; the debounce effect of the mount has set its first timer
SearchInit ==
    /\ storedUser = NoUser
    /\ token = NoToken
    /\ user = NoUser
    /\ authLoading = FALSE
    /\ authError = NoError
    /\ initPc = "done"
    /\ meToken = NoToken
    /\ authReqs = [k \in AuthKinds |-> 0]
    /\ page = "/relief-directory"
    /\ selectedLayer = DefaultLayer
    /\ HostIdle
    /\ selectedDate = DateObj(now)
    /\ tileLayer = NoLayer
    /\ MapSettled
    /\ lastOp = "mount"
    /\ mounted = [p \in Panels |-> p = "relief"]
    /\ \E v \in {NoData, CHOOSE x \in Payloads : TRUE} :
          /\ data = [p \in Panels |-> IF p = "relief" THEN v ELSE NoData]
          /\ error = [p \in Panels |->
                        IF p = "relief" /\ v = NoData
                        THEN CaughtMessage(p, "") ELSE NoErr(p)]
    /\ loading = [p \in Panels |-> p # "relief"]
    /\ isRefreshing = FALSE
    /\ inflight = [p \in Panels |-> NoFetches]
    /\ intervals = [p \in Panels |-> IF p = "relief" THEN RefreshMs(p) ELSE NoInterval]
    /\ lastFetch = NoFetch
    /\ searchQuery = <<>>
    /\ searchResults = NoResults
    /\ isSearching = FALSE
    /\ searchTimers = TimersAfterChange(<<>>)
    /\ searchReqs = [q \in Queries |-> 0]
    /\ sinceKey = 0
    /\ FormsIdle

SearchNext ==
    \/ \E q \in Queries : SetSearchQuery(q)
    \/ ClearSearch
    \/ Advance(DebounceMs \div 2)
    \/ \E t \in searchTimers : TimerFires(t)
    \/ \E q \in Queries : SearchOk(q)
    \/ \E q \in Queries : SearchFail(q)


\* The relief directory's search box
SearchSpec == SearchInit /\ [][SearchNext]_vars

\* A registered user, session settled, on one of the form pages
FormInit ==
    /\ storedUser \in RegisteredUsers
    /\ token = TokenOf(storedUser)
    /\ user = storedUser
    /\ authLoading = FALSE
    /\ authError = NoError
    /\ initPc = "done"
    /\ meToken = NoToken
    /\ authReqs = [k \in AuthKinds |-> 0]
    /\ page \in FormRoutes
    /\ selectedLayer = DefaultLayer
    /\ HostIdle
    /\ selectedDate = DateObj(now)
    /\ tileLayer = NoLayer
    /\ MapSettled
    /\ lastOp = "mount"
    /\ PanelsClosed
    /\ SearchIdle
    /\ FormsIdle

FormNext ==
    \/ \E v \in Emails : SetEmail(v)
    \/ \E v \in Passwords : SetPassword(v)
    \/ \E v \in Passwords : SetConfirmPassword(v)
    \/ \E v \in ShelterNames : SetShelterName(v)
    \/ handleLocationSelect
    \/ SubmitRegister
    \/ SubmitLogin
    \/ SubmitGuest
    \/ SubmitShelter
    \/ \E k \in AuthKinds : \E u \in AuthResponse(k) : FormAuthOk(k, u)
    \/ \E k \in AuthKinds : \E m \in FailureMessages(k) : FormAuthFail(k, m)
    \/ ShelterOk
    \/ \E m \in ShelterFailures : ShelterFail(m)
    \/ \E ok \in BOOLEAN : ShelterLate(ok)
    \/ ShelterRedirect
    \/ \E pg \in FormRoutes : NavigateTo(pg)

\* The three forms
FormSpec == FormInit /\ [][FormNext]_vars

----------------------------------------------------------------------------
(* The claims *)

\* C1: in every reachable state the satellite-map lock flag is true exactly
\* when the session state is ANONYMOUS or GUEST, and false exactly when it
\* is REGISTERED.
C1_LockIffNotRegistered ==
    /\ isSatelliteMapLocked(user) <=> SessionState(user) \in {"ANONYMOUS", "GUEST"}
    /\ ~isSatelliteMapLocked(user) <=> SessionState(user) = "REGISTERED"

\* A guest session right after loginAsGuest succeeded, map locked
C1_Witness ==
    lastOp = "guest_ok" /\ SessionState(user) = "GUEST" /\ isSatelliteMapLocked(user)

\* C2: after loginAsGuest succeeds the satellite imagery is locked, and a
\* GUEST (like a REGISTERED user) who opens the shelter-registration page is
\* shown the form and is not redirected away.
C2_GuestReachesShelterForm ==
    /\ lastOp = "guest_ok" => isSatelliteMapLocked(user)
    /\ (/\ lastOp = "open /register-shelter"
        /\ ~authLoading
        /\ SessionState(user) \in {"GUEST", "REGISTERED"})
       => ShelterView = "form"

Allowed_C3(from, to, op) ==
    \/ from = "ANONYMOUS" /\ to = "GUEST" /\ op = "guest_ok"
    \/ from = "ANONYMOUS" /\ to = "REGISTERED" /\ op \in {"login_ok", "register_ok"}
    \/ from = "GUEST" /\ to = "REGISTERED" /\ op = "register_ok"
    \/ to = "ANONYMOUS" /\ op = "logout"

\* C3 as stated: the session state changes only by ANONYMOUS -> GUEST
\* (guest-login), ANONYMOUS -> REGISTERED (login, register), GUEST ->
\* REGISTERED (register) and any -> ANONYMOUS (logout).  The restore of a
\* stored session by initAuth is no login/register/guest/logout call and is
\* left out of the claim.
C3_OnlyListedTransitions ==
    [][(SessionState(user') # SessionState(user) /\ lastOp' # "initAuth")
       => Allowed_C3(SessionState(user), SessionState(user'), lastOp')]_vars

\* C3 amended: the session state changes only to GUEST by a successful
\* guest-login, to REGISTERED by a successful login or register, and to
\* ANONYMOUS by logout, from whatever state it was in; a failed or merely
\* started call never changes it.
C3_TransitionsByOutcome ==
    [][(SessionState(user') # SessionState(user) /\ lastOp' # "initAuth")
       => \/ SessionState(user') = "GUEST" /\ lastOp' = "guest_ok"
          \/ SessionState(user') = "REGISTERED" /\ lastOp' \in {"login_ok", "register_ok"}
          \/ SessionState(user') = "ANONYMOUS" /\ lastOp' = "logout"]_vars

\* A login has just succeeded and the session is REGISTERED
C3_Witness == lastOp = "login_ok" /\ SessionState(user) = "REGISTERED"

\* C4: while the view is locked no satellite tile layer is on the map; a
\* tile layer exists only in the REGISTERED state.
C4_NoTileLayerWhileLocked ==
    /\ isSatelliteMapLocked(user) => tileLayer = NoLayer
    /\ tileLayer # NoLayer => SessionState(user) = "REGISTERED"

IsFailOf(p, op) == op = p \o "_fail"
IsOkOf(p, op) == op = p \o "_ok"

\* C5: a refresh whose fetch fails leaves the panel's data unchanged, never
\* replacing it with absent data, and sets error to the failure message (the
\* caught error's message for weather and flood, the directory's failure
\* text for the directory).
C5_FailedRefreshKeepsData ==
    [][\A p \in Panels :
          IsFailOf(p, lastOp')
          => /\ data'[p] = data[p]
             /\ Truthy(error'[p])
             /\ p # "relief" => error'[p] = lastFetch'.message]_vars

\* C6: the error of a mounted panel goes away only in the step of a
\* successful response, which puts that response's payload in data in the
\* same step: no rendered state holds the pre-refresh data with the error
\* already gone.
C6_ErrorClearedWithData ==
    [][\A p \in Panels :
          /\ (mounted[p] /\ mounted'[p] /\ Truthy(error[p]) /\ ~Truthy(error'[p]))
             => (IsOkOf(p, lastOp') /\ data'[p] = lastFetch'.payload)
          /\ IsOkOf(p, lastOp')
             => (data'[p] = lastFetch'.payload /\ ~Truthy(error'[p]))]_vars

\* A successful flood refresh has just replaced the data of a panel that was
\* showing an error
C6_Witness ==
    /\ lastOp = "flood_ok"
    /\ lastFetch.hadError
    /\ data["flood"] = lastFetch.payload
    /\ ~Truthy(error["flood"])

\* C7: when a background weather tick fails while earlier data exists, the
\* weather panel shows both the earlier data and the error.
C7_TickFailureShowsDataAndError ==
    (/\ lastFetch.panel = "weather"
     /\ lastFetch.origin = "tick"
     /\ lastFetch.result = "fail"
     /\ data["weather"] # NoData)
    => (DataShown("weather") /\ ErrorShown("weather"))

\* C8: every failed fetch of the directory page, the search request
\* included, leaves an error message with a retry button on screen.
C8_SearchFailureShowsError ==
    lastOp = "search_fail" => ErrorShown("relief")

NewRequest(q) == searchReqs'[q] = searchReqs[q] + 1
TimerStep(op) == op \in {"timer_request", "timer_clear"}

\* C9 as stated: when the debounce fires, a query of length 0 or 1 clears
\* the results and sends nothing, a query of length >= 2 sends a request;
\* no request leaves sooner than 300 ms after the last change of the input.
C9_LengthDecidesRequest ==
    [][/\ TimerStep(lastOp')
          => /\ Len(searchQuery) < MinQueryLen
                => (searchResults' = NoResults /\ searchReqs' = searchReqs)
             /\ Len(searchQuery) >= MinQueryLen => NewRequest(searchQuery)
       /\ \A q \in Queries :
             NewRequest(q) => (sinceKey >= DebounceMs /\ q = searchQuery)]_vars

\* C9 amended: a query of length 0 or 1, or one of whitespace only, clears
\* the results and sends nothing; a query of length >= 2 with a
\* non-whitespace character sends a request; no request leaves sooner than
\* 300 ms after the last change of the input.
C9_TrimmedLengthDecidesRequest ==
    [][/\ TimerStep(lastOp')
          => /\ (Len(searchQuery) < MinQueryLen \/ Trim(searchQuery) = <<>>)
                => (searchResults' = NoResults /\ searchReqs' = searchReqs)
             /\ (Len(searchQuery) >= MinQueryLen /\ Trim(searchQuery) # <<>>)
                => NewRequest(searchQuery)
       /\ \A q \in Queries :
             NewRequest(q) => (sinceKey >= DebounceMs /\ q = searchQuery)]_vars

\* The debounce has just sent the request for a two-character query
C9_Witness ==
    /\ lastOp = "timer_request"
    /\ Len(searchQuery) >= MinQueryLen
    /\ searchReqs[searchQuery] > 0
    /\ sinceKey >= DebounceMs

RegisterInvalid ==
    \/ email = "" \/ password = ""
    \/ Len(password) < MinPasswordLen
    \/ password # confirmPassword

\* C10: a submission that fails a client-side check sets the inline error
\* and sends nothing: registering with a password shorter than 6 characters
\* gives "Password must be at least 6 characters" (email and password being
\* present), and so do a missing field, a mismatch, an empty login field, an
\* empty shelter name and a missing location with their own messages.
C10_InvalidSubmitSendsNothing ==
    [][/\ (lastOp' = "submit /register" /\ RegisterInvalid)
          => (authReqs' = authReqs /\ formError' # "")
       /\ (lastOp' = "submit /register" /\ email # "" /\ password # ""
           /\ Len(password) < MinPasswordLen)
          => formError' = "Password must be at least 6 characters"
       /\ (lastOp' = "submit /login" /\ (email = "" \/ password = ""))
          => (authReqs' = authReqs /\ formError' # "")
       /\ (lastOp' = "submit /register-shelter"
           /\ (Trim(shelterName) = <<>> \/ ~located))
          => (shelterReqs' = shelterReqs /\ shelterError' # "")]_vars

\* C11: when /auth/me answers 401 the stored token and user are removed, the
\* session state is ANONYMOUS and the message "Session expired" is surfaced
\* (the provider's error holds it).
C11_ExpiredSessionSurfaced ==
    [][(initPc = "await" /\ initPc' = "done" /\ token # NoToken /\ token' = NoToken)
       => /\ storedUser' = NoUser
          /\ SessionState(user') = "ANONYMOUS"
          /\ authError' = "Session expired"]_vars

\* C13: the stored token and the stored user are both present, and belong to
\* the same response, or both absent; after logout both are absent.
C13_TokenAndUserTogether ==
    /\ token = NoToken <=> storedUser = NoUser
    /\ token # NoToken => token = TokenOf(storedUser)
    /\ lastOp = "logout" => (token = NoToken /\ storedUser = NoUser)

\* A register call has just stored the session of its response
C13_Witness ==
    /\ lastOp = "register_ok"
    /\ storedUser \in RegisteredUsers
    /\ token = TokenOf(storedUser)

SuccessOps == {"login_ok", "register_ok", "guest_ok"}

\* C12: a successful login, register or guest-login leaves {token, user} in
\* storage and has called every callback subscribed at that moment with the
\* new user, and no callback that is not subscribed.
C12_SuccessNotifiesSubscribers ==
    lastOp \in SuccessOps
    => /\ storedUser = user /\ token = TokenOf(user)
       /\ delivered = notifyAuthChange(user)

\* The calendar day a date stands for in the tile request
DayOf(d) == IF d.type = "Date" THEN toISODate(d).v ELSE d.v
InDomain(d) == DayOf(DateObj(MinDate)) <= DayOf(d) /\ DayOf(d) <= DayOf(DateObj(now))

\* C14: whatever dates are chosen through the slider, the picker and the
\* quick-select buttons, the selected date is a day from 2017-01-01 to
\* today; slider value 0 gives 2017-01-01 and slider value 100 a day not
\* after today.
C14_SelectedDateInDomain ==
    /\ InDomain(selectedDate)
    /\ DayOf(sliderToDate(0)) = DayOf(DateObj(MinDate))
    /\ DayOf(sliderToDate(1000)) <= DayOf(DateObj(now))

Clamped(d) ==
    IF DayOf(d) < DayOf(DateObj(MinDate)) THEN DateObj(MinDate)
    ELSE IF DayOf(d) > DayOf(DateObj(now)) THEN DateObj(now)
    ELSE d

\* C15: after setDate(d) the selected date is the day of d when d is in
\* [2017-01-01, today], and the nearest bound of the range when it is not.
C15_SetDateClamps ==
    [][lastOp' = "setDate"
       => DayOf(selectedDate') = DayOf(Clamped(dateArg'))]_vars

\* The YYYY-MM-DD string of the day a date stands for
Normalized(d) == DateStr("YYYY-MM-DD", DayOf(d))
Placeholders(url) == url.z = "{z}" /\ url.x = "{x}" /\ url.y = "{y}"
StateUntouched == UNCHANGED <<selectedLayer, selectedDate, tileLayer, token, storedUser, user>>

\* C16 as stated: for every layer id and date, given as a Date object or as
\* a string, the URL of getTileUrl carries the date normalized to YYYY-MM-DD
\* and the placeholders {z}, {x}, {y}, and the call touches no state.
C16_UrlCarriesNormalizedDate ==
    [][lastOp' = "getTileUrl"
       => /\ fnResult'.url.layer = fnCall'.layer
          /\ fnResult'.url.date = Normalized(fnCall'.date)
          /\ Placeholders(fnResult'.url)
          /\ StateUntouched]_vars

\* C16 amended: for a Date object the URL carries its UTC calendar day as
\* YYYY-MM-DD; a string is put into the URL as it is, so the URL carries
\* YYYY-MM-DD when the string already has that form; the placeholders are
\* there and the call touches no state.
C16_UrlCarriesIsoDayOrString ==
    [][lastOp' = "getTileUrl"
       => /\ fnResult'.url.layer = fnCall'.layer
          /\ fnCall'.date.type = "Date"
             => fnResult'.url.date = toISODate(fnCall'.date)
          /\ fnCall'.date.type = "string"
             => fnResult'.url.date = fnCall'.date
          /\ fnCall'.date.format = "YYYY-MM-DD"
             => fnResult'.url.date = Normalized(fnCall'.date)
          /\ Placeholders(fnResult'.url)
          /\ StateUntouched]_vars

\* getTileUrl was called with the Date of the midday clock
C16_Witness ==
    /\ fnCall.fn = "getTileUrl"
    /\ fnCall.date = DateObj(MiddayClock)
    /\ fnResult.url.date = DateStr("YYYY-MM-DD", MiddayClock \div MinutesPerDay)

FallbackRendered(cfg) ==
    /\ cfg = EmptyObject
    /\ Caption(cfg) = ""
    /\ ~Legend(cfg).shown

\* C17 as stated: for every layer id that is not a key of the registry the
\* lookup gives the fallback with empty name and no legend, and the caption
\* and the legend render from it without an error.
C17_UnknownIdGivesFallback ==
    (fnCall.fn = "currentLayerConfig" /\ fnCall.layer \notin RegistryIds)
    => FallbackRendered(fnResult.config)

\* C17 amended: for every layer id that is neither a key of the registry nor
\* a name inherited from Object.prototype the lookup gives the fallback with
\* empty name and no legend; for the name of an inherited function it gives
\* that function, whose name is not empty; for '__proto__' it gives
\* Object.prototype, which has no name and no legend; in every case nothing
\* throws and the legend renders nothing.
C17_UnknownOwnIdGivesFallback ==
    (fnCall.fn = "currentLayerConfig" /\ fnCall.layer \notin RegistryIds)
    => /\ fnCall.layer \notin InheritedKeys => FallbackRendered(fnResult.config)
       /\ fnCall.layer \in InheritedFunctions
          => (fnResult.config.name = IF fnCall.layer = "constructor"
                                    THEN "Object" ELSE fnCall.layer)
       /\ fnCall.layer = "__proto__" => Caption(fnResult.config) = ""
       /\ Caption(fnResult.config) # "TypeError"
       /\ ~Legend(fnResult.config).shown

\* The lookup was evaluated for an id the registry does not have
C17_Witness ==
    /\ fnCall.fn = "currentLayerConfig"
    /\ fnCall.layer = "S3_OLCI"
    /\ fnResult.config = EmptyObject

IsTickOf(p, op) == op = p \o "_tick"

\* C18: a panel that mounts issues exactly one fetch in that step and
\* registers its interval (600000 ms for weather, 300000 for flood and for
\* the directory); every firing of the interval happens on a mounted panel
\* and adds exactly one background fetch, and background fetches come from
\* nowhere else; a panel that is not mounted has no interval and no step
\* issues a fetch for it.
C18_PollerLifecycle ==
    [][\A p \in Panels :
          /\ (~mounted[p] /\ mounted'[p])
             => inflight'[p] = [NoFetches EXCEPT !["mount"] = 1]
          /\ mounted'[p]
             => intervals'[p] = (IF p = "weather" THEN 600000 ELSE 300000)
          /\ IsTickOf(p, lastOp')
             => /\ mounted[p] /\ mounted'[p]
                /\ inflight'[p] = [inflight[p] EXCEPT !["tick"] = @ + 1]
          /\ inflight'[p]["tick"] > inflight[p]["tick"] => IsTickOf(p, lastOp')
          /\ ~mounted'[p]
             => (intervals'[p] = NoInterval /\ inflight'[p] = NoFetches)]_vars

\* The flood panel's interval has just fired for a panel whose first fetch
\* has settled, while the weather panel, opened and closed again, has none
C18_Witness ==
    /\ lastOp = "flood_tick"
    /\ intervals["flood"] = 300000
    /\ inflight["flood"] = [NoFetches EXCEPT !["tick"] = 1]
    /\ data["flood"] # NoData
    /\ ~mounted["weather"]
    /\ intervals["weather"] = NoInterval


\* C19: when a refresh the user started and a background tick of one panel
\* are in flight together, every successful response puts its own payload
\* in data as it is handled, so once both have succeeded data is the
\* payload of the one handled last, whichever was issued first; between
\* the two only a response of its own changes the data of a mounted panel.
C19_LastResponseWins ==
    [][\A p \in Panels :
          /\ (/\ IsOkOf(p, lastOp')
              /\ inflight[p]["manual"] > 0
              /\ inflight[p]["tick"] > 0)
             => data'[p] = lastFetch'.payload
          /\ (/\ lastFetch'.panel = p
              /\ lastFetch'.result = "ok"
              /\ lastFetch'.before.result = "ok"
              /\ {lastFetch'.origin, lastFetch'.before.origin} = {"manual", "tick"})
             => data'[p] = lastFetch'.payload
          /\ (mounted[p] /\ mounted'[p] /\ data'[p] # data[p])
             => (IsOkOf(p, lastOp') \/ IsFailOf(p, lastOp'))]_vars

\* The weather panel's tick was answered first and the refresh issued before
\* it was answered last, with another payload: the refresh's payload is shown
C19_Witness ==
    /\ lastOp = "weather_ok"
    /\ lastFetch.origin = "manual"
    /\ lastFetch.before.origin = "tick"
    /\ lastFetch.before.result = "ok"
    /\ lastFetch.before.payload # lastFetch.payload
    /\ PanelInFlight("weather") = 0
    /\ data["weather"] = lastFetch.payload

\* C20: the step in which a fetch of one panel fails leaves every other
\* panel as it was (mounted or not, its data, loading flag, error, fetches
\* in flight and what it renders) and leaves the page and the map's
\* satellite overlay as they were.
C20_FailureStaysInItsPanel ==
    [][\A p \in Panels :
          IsFailOf(p, lastOp')
          => /\ \A q \in Panels \ {p} :
                   /\ mounted'[q] = mounted[q]
                   /\ data'[q] = data[q]
                   /\ loading'[q] = loading[q]
                   /\ error'[q] = error[q]
                   /\ inflight'[q] = inflight[q]
                   /\ PanelView(q)' = PanelView(q)
             /\ page' = page
             /\ tileLayer' = tileLayer]_vars

\* A weather fetch has just failed while the flood panel, open beside it,
\* shows its data with a fetch of its own in flight, and the map has its
\* overlay
C20_Witness ==
    /\ lastOp = "weather_fail"
    /\ Truthy(error["weather"])
    /\ mounted["flood"]
    /\ PanelView("flood") = "body"
    /\ data["flood"] # NoData
    /\ ~Truthy(error["flood"])
    /\ loading["flood"]
    /\ PanelInFlight("flood") > 0
    /\ tileLayer # NoLayer

\* C21: on the directory page a refresh the user starts raises isRefreshing
\* and leaves loading as it was, and a firing of the background interval
\* does not raise isRefreshing.
C21_TickDoesNotRaiseIsRefreshing ==
    [][/\ lastOp' = "relief_refresh"
          => (isRefreshing' /\ loading'["relief"] = loading["relief"])
       /\ lastOp' = "relief_tick"
          => ~(~isRefreshing /\ isRefreshing')]_vars

\* C22: an input change that leaves the query shorter than 2 characters
\* clears the search results in that same step, and starts no request.
C22_ShortQueryClearsAtOnce ==
    [][(lastOp' = "input" /\ Len(searchQuery') < 2)
       => (searchResults' = NoResults /\ searchReqs' = searchReqs)]_vars

\* C23: the map never holds more than one satellite overlay; while the map
\* is mounted its one overlay is the layer made from getTileUrl of the
\* current layer and date, and a step that changes the selection takes the
\* previous overlay off the map; while the map is not mounted no overlay and
\* no handler of LoadingIndicator or CoordinatesDisplay is left on it.
C23_SingleOverlay ==
    /\ Cardinality(mapLayers) <= 1
    /\ tileLayer # NoLayer
       => /\ mapLayers = {tileLayerRef}
          /\ tileLayerRef.url = getTileUrl(selectedLayer, MapViewDateStr(selectedDate))
          /\ mapListeners = ComponentListeners
    /\ tileLayer = NoLayer => (mapLayers = {} /\ mapListeners = {})
    /\ (page = "/" /\ ~authLoading) <=> tileLayer # NoLayer

\* The user has changed the layer and then the date: the one overlay on the
\* map is of the new layer and the new date
C23_Witness ==
    /\ lastOp = "setDate"
    /\ toISODate(selectedDate) # toISODate(DateObj(now))
    /\ Cardinality(mapLayers) = 1
    /\ selectedLayer # "S2_TRUE_COLOR"
    /\ \E l \in mapLayers : /\ l.url.date = toISODate(selectedDate)
                            /\ l.url.layer = selectedLayer

\* The step in which initAuth finishes, and the one among them in which a
\* 401 emptied the storage
InitSettles == initPc # "done" /\ initPc' = "done"
CleanedBy401 == token # NoToken /\ token' = NoToken

\* C24: initAuth always ends with loading false.  When the validation of a
\* stored token ends without a 401, and the storage still holds what the
\* page was loaded with, the provider's user is the stored user (the
\* server's user after a success, the stored profile after a failure), the
\* storage is untouched, and so the session state is the one stored before
\* the reload; whatever else happened meanwhile, the user is the server's
\* user, the stored profile, or the one the provider already had.
C24_ReloadKeepsSession ==
    [][InitSettles
       => /\ ~authLoading'
          /\ (initPc = "await" /\ ~CleanedBy401)
             => /\ user' \in {UserOf(meToken), storedUser, user}
                /\ token' = token /\ storedUser' = storedUser
          /\ (/\ initPc = "await"
              /\ ~CleanedBy401
              /\ token = meToken
              /\ storedUser = UserOf(meToken))
             => /\ user' = storedUser
                /\ SessionState(user') = SessionState(storedUser)]_vars

\* A page loaded with a registered user's session has finished initAuth
\* with that user signed in and the storage as it was
C24_Witness ==
    /\ lastOp = "initAuth"
    /\ initPc = "done"
    /\ ~authLoading
    /\ token # NoToken
    /\ storedUser \in RegisteredUsers
    /\ user = storedUser
    /\ SessionState(user) = "REGISTERED"
    /\ InFlight = 0

\* C25: the step in which a login, register or guest-login call fails
\* leaves the stored token, the stored user and the provider's user as they
\* were, puts the failure's message in the provider's error, hands the same
\* message to the page that made the call (the rethrow, caught by the
\* page), and ends with loading false.
C25_FailedAuthKeepsSession ==
    [][\A k \in AuthKinds :
          lastOp' = k \o "_fail"
          => /\ token' = token
             /\ storedUser' = storedUser
             /\ user' = user
             /\ authError' \in FailureMessages(k)
             /\ authError' # NoError
             /\ callerMounted => formError' = authError'
             /\ ~authLoading'
             /\ authReqs'[k] = authReqs[k] - 1]_vars

\* A guest login started from the login page by a signed-in user has just
\* failed: the session is the one from before, the message is in both places
C25_Witness ==
    /\ lastOp = "guest_fail"
    /\ authError = "Guest login failed"
    /\ formError = authError
    /\ ~authLoading
    /\ user \in RegisteredUsers
    /\ storedUser = user
    /\ token = TokenOf(user)

\* C26: when logout was the last thing done (so nothing was started after
\* it), a login, register or guest-login response that arrives next leaves
\* the session ANONYMOUS with no stored token.
C26_LogoutOutlivesLateLogin ==
    [][(lastOp = "logout" /\ lastOp' \in SuccessOps)
       => (token' = NoToken /\ SessionState(user') = "ANONYMOUS")]_vars

\* C27: a weather or flood panel with a fetch in flight has loading true,
\* and the directory page with a force refresh (tick or button) in flight
\* has isRefreshing true.
C27_LoadingWhileInFlight ==
    /\ \A p \in {"weather", "flood"} :
          (mounted[p] /\ PanelInFlight(p) > 0) => loading[p]
    /\ (/\ mounted["relief"]
        /\ inflight["relief"]["tick"] + inflight["relief"]["manual"] > 0)
       => isRefreshing

\* C28: when search results are on display, no search request is in flight
\* and no debounce timer is pending, the results are the response to the
\* query in the box; in particular none are on display for a query shorter
\* than 2 characters.
C28_ResultsAnswerCurrentQuery ==
    (searchResults # NoResults /\ SearchCount = 0 /\ searchTimers = {})
    => (searchResults.query = searchQuery /\ Len(searchQuery) >= 2)

\* C29: when initAuth has finished and no login, register or guest-login is
\* in flight, the provider has a user exactly when a token is stored, that
\* is exactly when getAuthHeaders returns an Authorization header.
C29_UserIffToken ==
    (initPc = "done" /\ InFlight = 0)
    => /\ IsAuthenticated(user) <=> isAuthenticated
       /\ IsAuthenticated(user) <=> "Authorization" \in getAuthHeaders

\* C30: while the overlay is on the map, the day in its tile URL (the UTC
\* day of the selected date) is the day the caption and the date panel show
\* (the day of the selected date in the client's zone).
C30_UrlDayIsDisplayedDay ==
    tileLayer # NoLayer
    => (/\ tileLayer.date = toISODate(selectedDate)
        /\ tileLayer.date.v = toLocaleDate(selectedDate))

============================================================================
